---- MODULE Spec2Model ----
(***************************************************************************)
(* go-quality-gate: the orchestrator (QualityGateService), the tool        *)
(* install manager (ToolManagerService) and the hook execution engine      *)
(* (HookRunnerService), modelled as one sequential process whose only      *)
(* suspension points are the blocking calls into the shell runner.         *)
(*                                                                         *)
(* Abstractions: a captured output is an opaque token that identifies the  *)
(* shell invocation that produced it; a shell error likewise.  Elapsed     *)
(* times (ExecutionResult.Duration and the "(12ms)" of the markers) are    *)
(* left out: no branch of the code reads them.  A Go nil slice and an      *)
(* empty slice are both the empty sequence.                                *)
(***************************************************************************)
EXTENDS Naturals, Sequences, FiniteSets, TLC

VARIABLES
    present,     \* environment: names of the tools whose check command succeeds
    op,          \* the entry point that was called ("" before the call)
    cfg,         \* the *config.Config argument of Run / Fix
    hookType,    \* the hookType argument of Run / Fix
    pc,          \* position in the code
    i,           \* index of the range loop that is executing (1-based)
    tools,       \* EnsureToolsInstalled: its tools argument
    hooks,       \* RunHooks: its hooks argument; Fix: hooksToFix
    fixHook,     \* RunFixCommand: its hook argument
    results,     \* RunHooks: the local slice results
    calls,       \* shell runner: every invocation so far, in order
    log,         \* logger: every Print / Println so far, in order
    spinner,     \* logger: message of the running spinner, "" when stopped
    ensureRet,   \* what EnsureToolsInstalled returned (NotReturned before)
    ret,         \* what the entry point returned (NotReturned before)
    vpc,         \* ConfigValidator: "idle", the function about to be called,
                 \* or "<function> returned"
    vcfg,        \* ConfigValidator.config
    venv,        \* what the validator reads of its environment: the state
                 \* of ./quality.yml and the commands found in PATH
    vtext,       \* the string argument of validateCommand / OutputRules
    vres,        \* the *ValidationResult
    dtree,       \* LanguageDetector: the directory tree at projectPath
    dscans,      \* what the calls of DetectProjectStructure returned, in order
    gstruct,     \* TemplateGenerator: the *ProjectStructure argument
    gtexts,      \* what the latest two calls of GenerateTemplate returned
    astruct,     \* LanguageDetector.analyzeFile: its structure argument
    acalls,      \* the number of analyzeFile calls made on astruct
    invocations  \* the invocations of Run / Fix that have returned, in order

runVars == <<present, op, cfg, hookType, pc, i, tools, hooks, fixHook, results,
             calls, log, spinner, ensureRet, ret>>

valVars == <<vpc, vcfg, venv, vtext, vres>>

detVars == <<dtree, dscans>>

genVars == <<gstruct, gtexts>>

anaVars == <<astruct, acalls>>

restVars == <<genVars, anaVars, invocations>>

vars == <<runVars, valVars, detVars, restVars>>

----------------------------------------------------------------------------
(* Bounds of the model *)

MaxTools == 2
MaxHooks == 2
\* ConfigValidator: the longest tools list
MaxValTools == 3
\* ConfigValidator: the longest command or failure message, in lexemes
MaxTextLen == 5
\* LanguageDetector: the number of scans of one tree
MaxScans == 2
\* TemplateGenerator: the most languages and frameworks of a structure
MaxLanguages == 2
MaxFrameworks == 1
\* LanguageDetector: the number of analyzeFile calls on one structure
MaxFileCalls == 3
\* QualityGateService: the number of invocations of Run on one configuration
MaxInvocations == 2

----------------------------------------------------------------------------
(* Data model: config.Tool / domain.Tool, config.Hook / domain.Hook *)

Tool(n) ==
    [Name |-> n.name, CheckCommand |-> n.check, InstallCommand |-> n.install]

ToolSeq ==
    <<Tool([name |-> "Tool 1", check |-> "check_tool_1", install |-> "install_tool_1"]),
      Tool([name |-> "Tool 2", check |-> "check_tool_2", install |-> "install_tool_2"]),
      Tool([name |-> "Tool 3", check |-> "check_tool_3", install |-> "install_tool_3"]),
      Tool([name |-> "Tool 4", check |-> "check_tool_4", install |-> "install_tool_4"])>>

\* The tool lists of the model: the first k tools, k <= MaxTools.
ToolLists == {SubSeq(ToolSeq, 1, k) : k \in 0..MaxTools}

OutputRules(showOn, msg) == [ShowOn |-> showOn, OnFailureMessage |-> msg]

Hook(name, command, fixCommand, rules) ==
    [Name |-> name, Command |-> command, FixCommand |-> fixCommand,
     OutputRules |-> rules]

\* Every (show_on, on_failure_message) combination occurs; hooks with and
\* without a fix command occur for every show_on and for every message.
HookPool ==
    { Hook("h1", "run_h1", "",       OutputRules("",        "")),
      Hook("h2", "run_h2", "fix_h2", OutputRules("",        "msg_h2")),
      Hook("h3", "run_h3", "fix_h3", OutputRules("failure", "")),
      Hook("h4", "run_h4", "",       OutputRules("failure", "msg_h4")),
      Hook("h5", "run_h5", "",       OutputRules("always",  "")),
      Hook("h6", "run_h6", "fix_h6", OutputRules("always",  "msg_h6")),
      Hook("h7", "run_h7", "fix_h7", OutputRules("success", "")),
      Hook("h8", "run_h8", "",       OutputRules("success", "msg_h8")) }

HookLists == UNION {[1..n -> HookPool] : n \in 0..MaxHooks}

HookTypes == {"pre-commit", "pre-push"}

\* config.Hooks: group name -> hook-type key -> list of hooks.  The
\* configurations of the model: no group, or one group with one key.
ConfigHooks ==
    {<<>>} \cup
    {[g \in {"quality"} |-> [t \in {"pre-commit"} |-> hs]] : hs \in HookLists}

Configs == {[Tools |-> ts, Hooks |-> hk] : ts \in ToolLists, hk \in ConfigHooks}

----------------------------------------------------------------------------
(* Values returned by the shell runner and errors built with fmt.Errorf *)

\* An error is the chain of its frames, outermost first (%w wraps); nil is
\* the empty chain.  output is the invocation whose captured output the
\* frame's text includes (0: none), call the invocation a shell error is of.
NoErr == <<>>

Frame(msg, name, call, output) ==
    [msg |-> msg, name |-> name, call |-> call, output |-> output]

Errorf(msg, name, cause, output) == <<Frame(msg, name, 0, output)>> \o cause

\* The error of the n-th shell invocation (exec's *ExitError).
ShellErr(n) == <<Frame("exit status", calls[n].cmd, n, 0)>>

\* The entry point has not returned / EnsureToolsInstalled has not returned.
NotReturned == [returned |-> FALSE, results |-> <<>>, output |-> 0, err |-> NoErr]

Returned(rs, out, err) ==
    [returned |-> TRUE, results |-> rs, output |-> out, err |-> err]

\* Mutant: every result is reported successful.
ExecutionResultAlwaysSuccess(hook, success, output) ==
    [Hook |-> hook, Success |-> TRUE, Output |-> output]

\* domain.ExecutionResult (Output: the invocation that produced it).
ExecutionResult(hook, success, output) ==
    [Hook |-> hook, Success |-> success, Output |-> output]

\* One Print / Println of the logger.
LogEntry(kind, text, output) == [kind |-> kind, text |-> text, output |-> output]

----------------------------------------------------------------------------
(* The shell runner: RealShellRunner.Run *)

\* s.shellRunner.Run(command) is entered.
ShellStart(cs, command) == Append(cs, [cmd |-> command, state |-> "running"])

\* s.shellRunner.Run returns: err == nil iff ok.
ShellFinish(cs, ok) ==
    [cs EXCEPT ![Len(cs)].state = IF ok THEN "ok" ELSE "failed"]

\* What a command can do: <<exit status 0?, environment it leaves behind>>.
\* A check command succeeds exactly when its tool is present; an install
\* command may exit with either status, having made its tool present or not;
\* any other command may exit with either status.
ShellOutcomes(command) ==
    LET checked   == {t \in 1..Len(ToolSeq) : ToolSeq[t].CheckCommand = command}
        installed == {t \in 1..Len(ToolSeq) : ToolSeq[t].InstallCommand = command}
    IN  IF checked # {}
        THEN {<<\A t \in checked : ToolSeq[t].Name \in present, present>>}
        ELSE IF installed # {}
        THEN {<<ok, env>> : ok \in BOOLEAN,
                            env \in {present, present \cup {ToolSeq[t].Name : t \in installed}}}
        ELSE {<<ok, present>> : ok \in BOOLEAN}

----------------------------------------------------------------------------
(* QualityGateService: the pure helpers *)

configToolsToDomain(configTools) ==
    [k \in 1..Len(configTools) |->
        [Name           |-> configTools[k].Name,
         CheckCommand   |-> configTools[k].CheckCommand,
         InstallCommand |-> configTools[k].InstallCommand]]

\* The sequences that enumerate the set S once each: the orders in which
\* a Go range over a map with key set S can visit it.
RangeOrders(S) ==
    {o \in [1..Cardinality(S) -> S] : \A a, b \in DOMAIN o : a # b => o[a] # o[b]}

hookToDomain(h) ==
    Hook(h.Name, h.Command, h.FixCommand,
         OutputRules(h.OutputRules.ShowOn, h.OutputRules.OnFailureMessage))

RECURSIVE appendGroups(_, _, _, _)
appendGroups(configHooks, type, order, k) ==
    IF k > Len(order) THEN <<>>
    ELSE LET group == configHooks[order[k]]
             own   == IF type \in DOMAIN group
                      THEN [j \in 1..Len(group[type]) |-> hookToDomain(group[type][j])]
                      ELSE <<>>
         IN  own \o appendGroups(configHooks, type, order, k + 1)

\* Mutant: the hooks of a group are taken from any of its hook-type keys.
getHooksToRunAnyKey(configHooks, type) ==
    {appendGroups(configHooks, key, o, 1) :
        o \in RangeOrders(DOMAIN configHooks),
        key \in UNION {DOMAIN configHooks[g] : g \in DOMAIN configHooks} \cup {type}}

\* Every list getHooksToRun can return (one per visiting order of the groups).
getHooksToRun(configHooks, type) ==
    {appendGroups(configHooks, type, o, 1) : o \in RangeOrders(DOMAIN configHooks)}

----------------------------------------------------------------------------
(* HookRunnerService: what RunHooks logs for one executed hook *)

\* Mutant: show_on "success" surfaces the output of a passing hook.
HookLogShowOnSuccess(hook, success, output) ==
    IF ~success
    THEN <<LogEntry("failed", hook.Name, 0)>>
         \o (IF hook.OutputRules.OnFailureMessage # ""
             THEN <<LogEntry("message", hook.OutputRules.OnFailureMessage, 0)>>
             ELSE <<>>)
         \o (IF hook.OutputRules.ShowOn = "failure" \/ hook.OutputRules.ShowOn = "always"
             THEN <<LogEntry("output", "", output)>>
             ELSE <<>>)
    ELSE <<LogEntry("passed", hook.Name, 0)>>
         \o (IF hook.OutputRules.ShowOn = "success" \/ hook.OutputRules.ShowOn = "always"
             THEN <<LogEntry("output", "", output)>>
             ELSE <<>>)

HookLog(hook, success, output) ==
    IF ~success
    THEN <<LogEntry("failed", hook.Name, 0)>>
         \o (IF hook.OutputRules.OnFailureMessage # ""
             THEN <<LogEntry("message", hook.OutputRules.OnFailureMessage, 0)>>
             ELSE <<>>)
         \o (IF hook.OutputRules.ShowOn = "failure" \/ hook.OutputRules.ShowOn = "always"
             THEN <<LogEntry("output", "", output)>>
             ELSE <<>>)
    ELSE <<LogEntry("passed", hook.Name, 0)>>
         \o (IF hook.OutputRules.ShowOn = "always"
             THEN <<LogEntry("output", "", output)>>
             ELSE <<>>)

----------------------------------------------------------------------------
(* The conditions and values of EnsureToolsInstalled, RunHooks and
   RunFixCommand *)

\* Mutant: the install command is run whatever the check returned.
CheckFailedAlways(ok) == TRUE

\* tool_manager.go: `if err != nil` after the check command.
CheckFailed(ok) == ~ok

\* Mutant: the error of the install command is ignored.
InstallFailedNever(ok) == FALSE

\* tool_manager.go: `if err != nil` after the install command.
InstallFailed(ok) == ~ok

\* Mutant: the error leaves out the captured install output.
InstallErrorWithoutOutput(tool, n) ==
    Errorf("failed to install", tool.Name, ShellErr(n), 0)

\* tool_manager.go: the error for the tool whose install, invocation n, failed.
InstallError(tool, n) == Errorf("failed to install", tool.Name, ShellErr(n), n)

\* Mutant: the loop is left at the first failed hook.
NextHookBreakOnFailure(k, success) == IF success THEN k + 1 ELSE Len(hooks) + 1

\* hook_runner.go: the range loop of RunHooks goes on to the next hook.
NextHook(k, success) == k + 1

\* Mutant: the guard against an empty fix command is missing.
NoFixCommandNever(hook) == FALSE

\* hook_runner.go: `if hook.FixCommand == ""`.
NoFixCommand(hook) == hook.FixCommand = ""

----------------------------------------------------------------------------
(* Initial state: the process has started, no entry point called yet *)

(* The configuration validator has not been given anything to validate *)
ValidatorIdle ==
    /\ vpc = "idle"
    /\ vcfg = [Tools |-> <<>>, Hooks |-> <<>>]
    /\ venv = [file |-> "missing", path |-> {}]
    /\ vtext = <<>>
    /\ vres = [Valid |-> TRUE, Errors |-> <<>>]

(* No directory tree has been given to the language detector *)
DetectorIdle ==
    /\ dtree = [root |-> "", files |-> {}, unreadable |-> {},
                content |-> <<>>]
    /\ dscans = <<>>

(* The template generator has not been called *)
GeneratorIdle ==
    /\ gstruct = [Languages |-> <<>>, Frameworks |-> <<>>, Tools |-> <<>>,
                  Structure |-> <<>>]
    /\ gtexts = <<>>

(* analyzeFile has not been called on a structure of its own *)
AnalysisIdle ==
    /\ astruct = [Languages |-> <<>>, Frameworks |-> <<>>, Tools |-> <<>>,
                  Structure |-> <<>>]
    /\ acalls = 0

(* The generator and the file analysis are idle, no invocation has returned *)
RestIdle ==
    /\ GeneratorIdle
    /\ AnalysisIdle
    /\ invocations = <<>>

Init ==
    /\ present \in SUBSET {ToolSeq[k].Name : k \in 1..MaxTools}
    /\ op = ""
    /\ cfg = [Tools |-> <<>>, Hooks |-> <<>>]
    /\ hookType = ""
    /\ pc = "idle"
    /\ i = 0
    /\ tools = <<>>
    /\ hooks = <<>>
    /\ fixHook = Hook("", "", "", OutputRules("", ""))
    /\ results = <<>>
    /\ calls = <<>>
    /\ log = <<>>
    /\ spinner = ""
    /\ ensureRet = NotReturned
    /\ ret = NotReturned
    /\ ValidatorIdle
    /\ DetectorIdle
    /\ RestIdle

----------------------------------------------------------------------------
(* QualityGateService.Run with ToolManagerService.EnsureToolsInstalled and
   HookRunnerService.RunHooks *)

\* main calls Run(cfg, hookType); Run calls EnsureToolsInstalled.
CallRun(c, type) ==
    /\ pc = "idle"
    /\ op' = "Run"
    /\ cfg' = c
    /\ hookType' = type
    /\ tools' = configToolsToDomain(c.Tools)
    /\ i' = 1
    /\ pc' = "ensure"
    /\ UNCHANGED <<present, hooks, fixHook, results, calls, log, spinner, ensureRet, ret>>

\* EnsureToolsInstalled: the next tool; its check command is started.
EnsureNext ==
    /\ pc = "ensure"
    /\ i <= Len(tools)
    /\ spinner' = "Checking if installed"
    /\ calls' = ShellStart(calls, tools[i].CheckCommand)
    /\ pc' = "checking"
    /\ UNCHANGED <<present, op, cfg, hookType, i, tools, hooks, fixHook, results, log,
                   ensureRet, ret>>

\* The check command returns: installed already, or the install command is started.
CheckReturn ==
    /\ pc = "checking"
    /\ \E o \in ShellOutcomes(tools[i].CheckCommand) :
          /\ present' = o[2]
          /\ IF CheckFailed(o[1])
             THEN /\ calls' = ShellStart(ShellFinish(calls, o[1]), tools[i].InstallCommand)
                  /\ spinner' = "Installing"
                  /\ pc' = "installing"
                  /\ UNCHANGED <<log, i>>
             ELSE /\ calls' = ShellFinish(calls, o[1])
                  /\ spinner' = ""
                  /\ log' = Append(log, LogEntry("already installed", tools[i].Name, 0))
                  /\ i' = i + 1
                  /\ pc' = "ensure"
    /\ UNCHANGED <<op, cfg, hookType, tools, hooks, fixHook, results, ensureRet, ret>>

\* The install command returns: on failure EnsureToolsInstalled returns the
\* error and Run returns it wrapped, with nil results.
InstallReturn ==
    /\ pc = "installing"
    /\ \E o \in ShellOutcomes(tools[i].InstallCommand) :
          /\ present' = o[2]
          /\ calls' = ShellFinish(calls, o[1])
          /\ spinner' = ""
          /\ IF InstallFailed(o[1])
             THEN /\ ensureRet' = Returned(<<>>, 0, InstallError(tools[i], Len(calls)))
                  /\ ret' = Returned(<<>>, 0,
                        Errorf("failed to ensure tools are installed", "",
                               ensureRet'.err, 0))
                  /\ pc' = "done"
                  /\ UNCHANGED <<log, i>>
             ELSE /\ log' = Append(log, LogEntry("installed successfully", tools[i].Name, 0))
                  /\ i' = i + 1
                  /\ pc' = "ensure"
                  /\ UNCHANGED <<ensureRet, ret>>
    /\ UNCHANGED <<op, cfg, hookType, tools, hooks, fixHook, results>>

\* EnsureToolsInstalled returns nil; Run resolves the hooks and calls RunHooks.
EnsureDone ==
    /\ pc = "ensure"
    /\ i > Len(tools)
    /\ ensureRet' = Returned(<<>>, 0, NoErr)
    /\ hooks' \in getHooksToRun(cfg.Hooks, hookType)
    /\ results' = <<>>
    /\ i' = 1
    /\ pc' = "hooks"
    /\ UNCHANGED <<present, op, cfg, hookType, tools, fixHook, calls, log, spinner, ret>>

\* RunHooks: the next hook; its command is started.
HookNext ==
    /\ pc = "hooks"
    /\ i <= Len(hooks)
    /\ spinner' = "Running"
    /\ calls' = ShellStart(calls, hooks[i].Command)
    /\ pc' = "running"
    /\ UNCHANGED <<present, op, cfg, hookType, i, tools, hooks, fixHook, results, log,
                   ensureRet, ret>>

\* The hook's command returns: the result is appended and the output rules applied.
HookReturn ==
    /\ pc = "running"
    /\ \E o \in ShellOutcomes(hooks[i].Command) :
          LET result == ExecutionResult(hooks[i], o[1], Len(calls))
          IN  /\ present' = o[2]
              /\ calls' = ShellFinish(calls, o[1])
              /\ spinner' = ""
              /\ results' = Append(results, result)
              /\ log' = log \o HookLog(hooks[i], result.Success, result.Output)
              /\ i' = NextHook(i, result.Success)
    /\ pc' = "hooks"
    /\ UNCHANGED <<op, cfg, hookType, tools, hooks, fixHook, ensureRet, ret>>

\* Mutant: only the last result decides.
RunErrorLastOnly(rs) ==
    IF rs # <<>> /\ ~rs[Len(rs)].Success
    THEN Errorf("one or more hooks failed", "", NoErr, 0)
    ELSE NoErr

\* Mutant: a Run that executed no hook is an error.
RunErrorWhenEmpty(rs) ==
    IF rs = <<>> \/ \E k \in 1..Len(rs) : ~rs[k].Success
    THEN Errorf("one or more hooks failed", "", NoErr, 0)
    ELSE NoErr

\* The error Run returns for the results of RunHooks.
RunError(rs) ==
    IF \E k \in 1..Len(rs) : ~rs[k].Success
    THEN Errorf("one or more hooks failed", "", NoErr, 0)
    ELSE NoErr

\* RunHooks returns results; Run checks them and returns.
HooksDone ==
    /\ pc = "hooks"
    /\ i > Len(hooks)
    /\ ret' = Returned(results, 0, RunError(results))
    /\ pc' = "done"
    /\ UNCHANGED <<present, op, cfg, hookType, i, tools, hooks, fixHook, results, calls,
                   log, spinner, ensureRet>>

----------------------------------------------------------------------------
(* QualityGateService.Fix and HookRunnerService.RunFixCommand *)

\* Mutant: Fix begins with EnsureToolsInstalled, as Run does.
CallFixEnsuringTools(c, type) ==
    /\ pc = "idle"
    /\ op' = "Fix"
    /\ cfg' = c
    /\ hookType' = type
    /\ tools' = configToolsToDomain(c.Tools)
    /\ i' = 1
    /\ pc' = "ensure"
    /\ UNCHANGED <<present, hooks, fixHook, results, calls, log, spinner, ensureRet, ret>>

\* main calls Fix(cfg, hookType); Fix resolves the hooks.
CallFix(c, type) ==
    /\ pc = "idle"
    /\ op' = "Fix"
    /\ cfg' = c
    /\ hookType' = type
    /\ hooks' \in getHooksToRun(c.Hooks, type)
    /\ i' = 1
    /\ pc' = "fix"
    /\ UNCHANGED <<present, tools, fixHook, results, calls, log, spinner, ensureRet, ret>>

\* Fix: the next hook has no fix command and is passed over.
FixSkip ==
    /\ pc = "fix"
    /\ i <= Len(hooks)
    /\ hooks[i].FixCommand = ""
    /\ i' = i + 1
    /\ UNCHANGED <<present, op, cfg, hookType, pc, tools, hooks, fixHook, results, calls,
                   log, spinner, ensureRet, ret>>

\* Fix: the next hook has a fix command; RunFixCommand is called on it.
FixCall ==
    /\ pc = "fix"
    /\ i <= Len(hooks)
    /\ hooks[i].FixCommand # ""
    /\ fixHook' = hooks[i]
    /\ pc' = "rfc"
    /\ UNCHANGED <<present, op, cfg, hookType, i, tools, hooks, results, calls, log,
                   spinner, ensureRet, ret>>

\* Fix has gone through every hook and returns nil.
FixDone ==
    /\ pc = "fix"
    /\ i > Len(hooks)
    /\ ret' = Returned(<<>>, 0, NoErr)
    /\ pc' = "done"
    /\ UNCHANGED <<present, op, cfg, hookType, i, tools, hooks, fixHook, results, calls,
                   log, spinner, ensureRet>>

\* RunFixCommand is called directly on a hook.
CallRunFixCommand(hook) ==
    /\ pc = "idle"
    /\ op' = "RunFixCommand"
    /\ fixHook' = hook
    /\ pc' = "rfc"
    /\ UNCHANGED <<present, cfg, hookType, i, tools, hooks, results, calls, log, spinner,
                   ensureRet, ret>>

\* Mutant: Fix goes on with the next hook after a failed fix command.
FixCommandReturnsIgnoringError(output, err) ==
    IF op = "Fix"
    THEN /\ i' = i + 1
         /\ pc' = "fix"
         /\ UNCHANGED ret
    ELSE /\ ret' = Returned(<<>>, output, err)
         /\ pc' = "done"
         /\ UNCHANGED i

\* RunFixCommand returns (output, err) to its caller: Fix returns the error
\* wrapped with the hook's name, or goes on with the next hook.
FixCommandReturns(output, err) ==
    IF op = "Fix"
    THEN IF err # NoErr
         THEN /\ ret' = Returned(<<>>, 0,
                    Errorf("failed to run fix command for hook", fixHook.Name, err, 0))
              /\ pc' = "done"
              /\ UNCHANGED i
         ELSE /\ i' = i + 1
              /\ pc' = "fix"
              /\ UNCHANGED ret
    ELSE /\ ret' = Returned(<<>>, output, err)
         /\ pc' = "done"
         /\ UNCHANGED i

\* RunFixCommand, hook without a fix command: an error, nothing is run.
RunFixCommandEmpty ==
    /\ pc = "rfc"
    /\ NoFixCommand(fixHook)
    /\ FixCommandReturns(0, Errorf("no fix command defined for hook", fixHook.Name, NoErr, 0))
    /\ UNCHANGED <<present, op, cfg, hookType, tools, hooks, fixHook, results, calls, log,
                   spinner, ensureRet>>

\* RunFixCommand: the fix command is started.
RunFixCommandStart ==
    /\ pc = "rfc"
    /\ ~NoFixCommand(fixHook)
    /\ spinner' = "Running fix command"
    /\ calls' = ShellStart(calls, fixHook.FixCommand)
    /\ pc' = "fixing"
    /\ UNCHANGED <<present, op, cfg, hookType, i, tools, hooks, fixHook, results, log,
                   ensureRet, ret>>

\* The fix command returns.
RunFixCommandReturn ==
    /\ pc = "fixing"
    /\ \E o \in ShellOutcomes(fixHook.FixCommand) :
          /\ present' = o[2]
          /\ calls' = ShellFinish(calls, o[1])
          /\ spinner' = ""
          /\ IF o[1]
             THEN /\ log' = Append(log, LogEntry("fix completed", fixHook.Name, 0))
                  /\ FixCommandReturns(Len(calls), NoErr)
             ELSE /\ FixCommandReturns(Len(calls),
                        Errorf("failed to run fix command for", fixHook.Name,
                               ShellErr(Len(calls)), Len(calls)))
                  /\ UNCHANGED log
    /\ UNCHANGED <<op, cfg, hookType, tools, hooks, fixHook, results, ensureRet>>

----------------------------------------------------------------------------

Next ==
    \/ pc = "idle" /\ \E c \in Configs, type \in HookTypes : CallRun(c, type) /\ UNCHANGED <<valVars, detVars, restVars>>
    \/ EnsureNext /\ UNCHANGED <<valVars, detVars, restVars>>
    \/ CheckReturn /\ UNCHANGED <<valVars, detVars, restVars>>
    \/ InstallReturn /\ UNCHANGED <<valVars, detVars, restVars>>
    \/ EnsureDone /\ UNCHANGED <<valVars, detVars, restVars>>
    \/ HookNext /\ UNCHANGED <<valVars, detVars, restVars>>
    \/ HookReturn /\ UNCHANGED <<valVars, detVars, restVars>>
    \/ HooksDone /\ UNCHANGED <<valVars, detVars, restVars>>
    \/ pc = "idle" /\ \E c \in Configs, type \in HookTypes : CallFix(c, type) /\ UNCHANGED <<valVars, detVars, restVars>>
    \/ FixSkip /\ UNCHANGED <<valVars, detVars, restVars>>
    \/ FixCall /\ UNCHANGED <<valVars, detVars, restVars>>
    \/ FixDone /\ UNCHANGED <<valVars, detVars, restVars>>
    \/ pc = "idle" /\ \E hook \in HookPool : CallRunFixCommand(hook) /\ UNCHANGED <<valVars, detVars, restVars>>
    \/ RunFixCommandEmpty /\ UNCHANGED <<valVars, detVars, restVars>>
    \/ RunFixCommandStart /\ UNCHANGED <<valVars, detVars, restVars>>
    \/ RunFixCommandReturn /\ UNCHANGED <<valVars, detVars, restVars>>

Spec == Init /\ [][Next]_vars

----------------------------------------------------------------------------
(* Observations used by the properties *)

IsHookCommand(inv) == \E h \in HookPool : h.Command = inv.cmd
IsCheckCommand(inv) == \E k \in 1..Len(ToolSeq) : ToolSeq[k].CheckCommand = inv.cmd
IsInstallCommand(inv) == \E k \in 1..Len(ToolSeq) : ToolSeq[k].InstallCommand = inv.cmd

\* The invocations of hook main commands, in the order they were made.
HookCalls == SelectSeq(calls, IsHookCommand)

\* Where the k-th hook of RunHooks stands.
HookState(k) ==
    IF k > Len(HookCalls) THEN "Pending"
    ELSE IF HookCalls[k].state = "running" THEN "Running"
    ELSE IF HookCalls[k].state = "ok" THEN "Succeeded"
    ELSE "Failed"

\* EnsureToolsInstalled has returned nil.
ToolsEnsured == ensureRet.returned /\ ensureRet.err = NoErr

\* Run has returned after RunHooks ran.
RunReturnedFromHooks == op = "Run" /\ pc = "done" /\ ToolsEnsured

----------------------------------------------------------------------------
(* C1: RunHooks on N hooks returns exactly N results; result k carries hook
   k, and is successful exactly when the shell run of hook k's command
   returned no error, whatever the other hooks did. *)
C1_OneResultPerHook ==
    RunReturnedFromHooks =>
        /\ Len(results) = Len(hooks)
        /\ Len(HookCalls) = Len(hooks)
        /\ \A k \in 1..Len(hooks) :
              /\ results[k].Hook = hooks[k]
              /\ results[k].Success <=> (HookCalls[k].state = "ok")

\* Two hooks, the first failed and the second succeeded.
C1_Witness ==
    /\ RunReturnedFromHooks
    /\ Len(hooks) = 2
    /\ hooks[1] # hooks[2]
    /\ ~results[1].Success
    /\ results[2].Success

(* C2: one RunHooks call invokes the shell with exactly the hooks' main
   commands, once each, in input order, one invocation at a time; each hook
   goes Pending -> Running -> Succeeded or Failed and stays there, so a
   failure neither stops the later hooks nor reruns a command. *)
C2_HookSteps ==
    \A k \in 1..Len(hooks) :
        \/ HookState(k)' = HookState(k)
        \/ HookState(k) = "Pending" /\ HookState(k)' = "Running"
        \/ HookState(k) = "Running" /\ HookState(k)' \in {"Succeeded", "Failed"}

C2_InOrder ==
    op = "Run" =>
        /\ \A k \in 1..Len(calls) : calls[k].state = "running" => k = Len(calls)
        /\ Len(HookCalls) <= Len(hooks)
        /\ \A k \in 1..Len(HookCalls) : HookCalls[k].cmd = hooks[k].Command
        /\ RunReturnedFromHooks =>
              \A k \in 1..Len(hooks) : HookState(k) \in {"Succeeded", "Failed"}

C2_SequentialNoRetryNoShortCircuit == [](C2_InOrder) /\ [][C2_HookSteps]_vars

\* The second hook is running after the first one failed.
C2_Witness ==
    /\ op = "Run"
    /\ Len(hooks) = 2
    /\ HookState(1) = "Failed"
    /\ HookState(2) = "Running"

(* C3: when the tools are ensured, Run returns an error exactly when some
   result is unsuccessful, and in both cases returns the complete result
   list, one result per resolved hook. *)
C3_AggregateFailure ==
    RunReturnedFromHooks =>
        /\ (ret.err # NoErr) <=> (\E k \in 1..Len(ret.results) : ~ret.results[k].Success)
        /\ (ret.err # NoErr) <=> (\E k \in 1..Len(HookCalls) : HookCalls[k].state = "failed")
        /\ Len(ret.results) = Len(hooks)
        /\ \A k \in 1..Len(hooks) : ret.results[k].Hook = hooks[k]

\* Run returned an error with both results: the first passed, the second failed.
C3_Witness ==
    /\ RunReturnedFromHooks
    /\ ret.err # NoErr
    /\ Len(ret.results) = 2
    /\ ret.results[1].Success
    /\ ~ret.results[2].Success

(* C4: Run executes no hook command before EnsureToolsInstalled has returned
   nil, having checked every tool of the list; if an install fails, Run
   returns an error with a nil result list and no hook command is executed. *)
C4_ToolsBeforeHooks ==
    op = "Run" =>
        /\ HookCalls # <<>> =>
              /\ ToolsEnsured
              /\ \A k \in 1..Len(cfg.Tools) :
                    \E n \in 1..Len(calls) : calls[n].cmd = cfg.Tools[k].CheckCommand
        /\ (\E n \in 1..Len(calls) :
                IsInstallCommand(calls[n]) /\ calls[n].state = "failed") =>
              /\ pc = "done"
              /\ ensureRet.returned
              /\ ensureRet.err # NoErr
              /\ ret.returned
              /\ ret.err # NoErr
              /\ ret.results = <<>>
              /\ HookCalls = <<>>

\* An install failed while the configuration had hooks for the hook type.
C4_Witness ==
    /\ op = "Run"
    /\ pc = "done"
    /\ ensureRet.err # NoErr
    /\ \E h \in getHooksToRun(cfg.Hooks, hookType) : Len(h) = 2

(* C5: EnsureToolsInstalled goes through the tools in list order; each tool
   it reaches is checked once, and its install command runs once if that
   check failed and never otherwise, directly after the check; an install
   that succeeds does not stop the sequence. *)
CheckCalls == SelectSeq(calls, IsCheckCommand)

InstallsOf(tool) ==
    Cardinality({n \in 1..Len(calls) : calls[n].cmd = tool.InstallCommand})

C5_CheckThenInstall ==
    op = "Run" =>
        /\ Len(CheckCalls) <= Len(tools)
        /\ \A k \in 1..Len(CheckCalls) :
              /\ CheckCalls[k].cmd = tools[k].CheckCommand
              /\ InstallsOf(tools[k]) = IF CheckCalls[k].state = "failed" THEN 1 ELSE 0
        /\ \A k \in (Len(CheckCalls) + 1)..Len(tools) : InstallsOf(tools[k]) = 0
        /\ \A n \in 1..Len(calls) :
              IsInstallCommand(calls[n]) =>
                  /\ n > 1
                  /\ calls[n - 1].state = "failed"
                  /\ \E k \in 1..Len(tools) :
                        /\ calls[n - 1].cmd = tools[k].CheckCommand
                        /\ calls[n].cmd = tools[k].InstallCommand
        /\ ToolsEnsured => Len(CheckCalls) = Len(tools)

\* Scenario A: one tool whose check fails and whose install succeeds, one
\* hook that exits 0: the install ran once and Run returned no error.
C5_Witness ==
    /\ RunReturnedFromHooks
    /\ Len(tools) = 1
    /\ CheckCalls[1].state = "failed"
    /\ InstallsOf(tools[1]) = 1
    /\ Len(results) = 1
    /\ results[1].Success
    /\ ret.err = NoErr

(* C6: EnsureToolsInstalled is fail-fast: when an install command fails it
   returns an error that names the tool and includes the underlying error
   and the captured install output, and no command of a later tool runs. *)
C6_InstallFailFast ==
    op = "Run" =>
        \A n \in 1..Len(calls) :
            (IsInstallCommand(calls[n]) /\ calls[n].state = "failed") =>
                /\ n = Len(calls)
                /\ pc = "done"
                /\ ensureRet.returned
                /\ Len(ensureRet.err) = 2
                /\ ensureRet.err[1].msg = "failed to install"
                /\ tools[Len(CheckCalls)].InstallCommand = calls[n].cmd
                /\ ensureRet.err[1].name = tools[Len(CheckCalls)].Name
                /\ ensureRet.err[1].output = n
                /\ ensureRet.err[2].call = n

\* The install of the first of two tools failed.
C6_Witness ==
    /\ op = "Run"
    /\ pc = "done"
    /\ Len(tools) = 2
    /\ Len(calls) = 2
    /\ calls[2].cmd = tools[1].InstallCommand
    /\ calls[2].state = "failed"

(* C7: whenever EnsureToolsInstalled returns success, the check command of
   every tool of the list succeeds in the environment left behind. *)
C7_EnsuredToolsPresent ==
    (op = "Run" /\ ToolsEnsured) => \A k \in 1..Len(tools) : tools[k].Name \in present

(* C8: Fix runs the fix commands of the resolved hooks in resolved order and
   is fail-fast: after a failed fix command no later fix command runs, the
   returned error names the hook whose fix failed, and the fixes applied
   before stay applied (nothing else is run). *)
HasFixCommand(h) == h.FixCommand # ""

C8_FixFailFast ==
    op = "Fix" =>
        LET fixable == SelectSeq(hooks, HasFixCommand)
        IN  /\ Len(calls) <= Len(fixable)
            /\ \A n \in 1..Len(calls) :
                  /\ calls[n].cmd = fixable[n].FixCommand
                  /\ n < Len(calls) => calls[n].state = "ok"
                  /\ calls[n].state = "failed" =>
                        /\ pc = "done"
                        /\ ret.err # NoErr
                        /\ ret.err[1].msg = "failed to run fix command for hook"
                        /\ ret.err[1].name = fixable[n].Name
            /\ (pc = "done" /\ ret.err = NoErr) =>
                  /\ Len(calls) = Len(fixable)
                  /\ \A n \in 1..Len(calls) : calls[n].state = "ok"

\* Scenario D: the fix of the first of two fixable hooks failed.
C8_Witness ==
    /\ op = "Fix"
    /\ pc = "done"
    /\ Len(hooks) = 2
    /\ HasFixCommand(hooks[1])
    /\ HasFixCommand(hooks[2])
    /\ Len(calls) = 1
    /\ calls[1].state = "failed"

(* C9: RunFixCommand on a hook without a fix command returns an error that
   names the hook and invokes the shell runner zero times. *)
C9_NoFixCommandIsError ==
    (op = "RunFixCommand" /\ fixHook.FixCommand = "") =>
        /\ calls = <<>>
        /\ pc \in {"rfc", "done"}
        /\ pc = "done" =>
              /\ ret.err # NoErr
              /\ ret.err[1].msg = "no fix command defined for hook"
              /\ ret.err[1].name = fixHook.Name

\* RunFixCommand has returned for a hook without a fix command.
C9_Witness ==
    /\ op = "RunFixCommand"
    /\ fixHook.FixCommand = ""
    /\ pc = "done"

(* C10: what is logged for an executed hook depends on (success, show_on,
   on_failure_message) only: on failure the failure marker, the message if
   non-empty, the captured output iff show_on is failure or always; on
   success the success marker, the captured output iff show_on is always. *)
HookLogKinds == {"failed", "passed", "message", "output"}

IsHookLogEntry(e) == e.kind \in HookLogKinds

ExpectedHookLog(r) ==
    LET rules  == r.Hook.OutputRules
        marker == IF r.Success THEN "passed" ELSE "failed"
        shown  == IF r.Success THEN rules.ShowOn = "always"
                  ELSE rules.ShowOn \in {"failure", "always"}
        msg    == ~r.Success /\ rules.OnFailureMessage # ""
    IN  [n \in 1..(1 + (IF msg THEN 1 ELSE 0) + (IF shown THEN 1 ELSE 0)) |->
            IF n = 1 THEN LogEntry(marker, r.Hook.Name, 0)
            ELSE IF n = 2 /\ msg THEN LogEntry("message", rules.OnFailureMessage, 0)
            ELSE LogEntry("output", "", r.Output)]

RECURSIVE ExpectedLog(_)
ExpectedLog(rs) ==
    IF rs = <<>> THEN <<>> ELSE ExpectedHookLog(Head(rs)) \o ExpectedLog(Tail(rs))

C10_OutputRules ==
    op = "Run" =>
        /\ SelectSeq(log, IsHookLogEntry) = ExpectedLog(results)
        /\ \A k \in 1..Len(results) :
              /\ calls[results[k].Output].cmd = results[k].Hook.Command
              /\ results[k].Hook.OutputRules.ShowOn = "success" =>
                    LogEntry("output", "", results[k].Output) \notin
                        {log[n] : n \in 1..Len(log)}

\* Scenario B: a hook with show_on failure and a failure message has failed,
\* and its output is the last thing logged.
C10_Witness ==
    /\ op = "Run"
    /\ Len(results) = 1
    /\ ~results[1].Success
    /\ results[1].Hook.OutputRules.ShowOn = "failure"
    /\ results[1].Hook.OutputRules.OnFailureMessage # ""
    /\ log[Len(log)] = LogEntry("output", "", results[1].Output)

----------------------------------------------------------------------------
(* ConfigValidator (internal/config/validator.go).                          *)
(*                                                                          *)
(* A Go string is modelled as a sequence of lexemes: the string is their    *)
(* concatenation, " " is the only white space, and the lexemes are cut so   *)
(* that every literal the code searches for lies inside one lexeme or is    *)
(* made of whole lexemes.  What a lexeme holds as a prefix, a suffix or in  *)
(* its middle is tabulated below for the lexemes the inputs are built from; *)
(* every other lexeme holds only itself.                                    *)

LexemePrefixes ==
    { <<"/", "/dev/sda">>, <<"/dev/sd[a-z]", "/dev/sda">>,
      <<"of=/dev", "of=/dev/sda">>, <<"ruf", "ruff">>,
      <<"golangci", "golangci-lint">>, <<"sh", "shellcheck">>,
      <<"rm", "rmdir">>, <<"pytest", "pytest-django">>,
      <<".", ".hidden">>, <<".", ".git">>, <<".", ".svn">>, <<".", ".hg">>,
      <<".", ".venv">>, <<".", ".next">>, <<".", ".nuxt">>, <<".", ".idea">>,
      <<".", ".vscode">>, <<".", "..">> }

LexemeSuffixes ==
    { <<"/", "./bin/">>, <<"|", "x|">>, <<"django", "pytest-django">>,
      <<".", "..">> }

LexemeInfixes ==
    { <<"/", "/dev/sda">>, <<"/", "of=/dev/sda">>, <<"/", "https://x">>,
      <<"/", "./bin/gitleaks">>, <<"security", "app-security-checks">> }

HasPrefix(w, l) == w = l \/ <<l, w>> \in LexemePrefixes

HasSuffix(w, l) == w = l \/ <<l, w>> \in LexemeSuffixes

HasInfix(w, l) == HasPrefix(w, l) \/ HasSuffix(w, l) \/ <<l, w>> \in LexemeInfixes

(* strings.ToLower, lexeme by lexeme *)
ToLowerLexeme(w) ==
    CASE w = "Security" -> "security"
      [] w = "Quality"  -> "quality"
      [] w = "Prettier" -> "prettier"
      [] w = "Black"    -> "black"
      [] w = "Ruff"     -> "ruff"
      [] w = "Django"   -> "django"
      [] OTHER          -> w

ToLower(s) == [k \in 1..Len(s) |-> ToLowerLexeme(s[k])]

(* strings.TrimSpace *)
RECURSIVE TrimLeft(_)
TrimLeft(s) ==
    IF s # <<>> /\ Head(s) = " " THEN TrimLeft(Tail(s)) ELSE s

RECURSIVE TrimRight(_)
TrimRight(s) ==
    IF s # <<>> /\ s[Len(s)] = " " THEN TrimRight(SubSeq(s, 1, Len(s) - 1)) ELSE s

TrimSpaceNothing(s) == s

TrimSpace(s) == TrimRight(TrimLeft(s))

(* strings.Fields: the maximal runs of lexemes that are not white space *)
RECURSIVE FieldsFrom(_, _)
FieldsFrom(s, word) ==
    IF s = <<>>
    THEN IF word = <<>> THEN <<>> ELSE <<word>>
    ELSE IF Head(s) = " "
         THEN (IF word = <<>> THEN <<>> ELSE <<word>>) \o FieldsFrom(Tail(s), <<>>)
         ELSE FieldsFrom(Tail(s), Append(word, Head(s)))

Fields(s) == FieldsFrom(s, <<>>)

(* strings.Contains(s, pat): pat occurs in the concatenation of s; a pat of *)
(* several lexemes occurs at position k when it ends s[k], begins the last  *)
(* lexeme it reaches, and is equal to the lexemes between                   *)
OccursAt(s, pat, k) ==
    /\ k + Len(pat) - 1 <= Len(s)
    /\ \A j \in 1..Len(pat) :
          IF j = 1 THEN HasSuffix(s[k], pat[1])
          ELSE IF j = Len(pat) THEN HasPrefix(s[k + j - 1], pat[j])
          ELSE s[k + j - 1] = pat[j]

Contains(s, pat) ==
    IF Len(pat) = 1
    THEN \E k \in 1..Len(s) : HasInfix(s[k], pat[1])
    ELSE \E k \in 1..Len(s) : OccursAt(s, pat, k)

(* strings.Count(s, lexeme) for a one-character lexeme *)
RECURSIVE Count(_, _)
Count(s, l) ==
    IF s = <<>> THEN 0
    ELSE (IF Head(s) = l THEN 1 ELSE 0) + Count(Tail(s), l)

(* Pieces of the regular expressions: \s+ , \s* and .* between the lexeme   *)
(* at position a and the lexeme at position b                               *)
SpaceRun(s, a, b) == \A k \in a..b : s[k] = " "

Spaces1(s, a, b) == b > a + 1 /\ SpaceRun(s, a + 1, b - 1)

Spaces0(s, a, b) == b > a /\ SpaceRun(s, a + 1, b - 1)

Pos(s) == 1..Len(s)

(* regexp.MatchString(pattern, command) for the patterns of validateCommand *)
dangerousPatterns ==
    << "rm\\s+-rf\\s+/", "rm\\s+-rf\\s+\\*", "sudo\\s+rm", ">\\s*/dev/sd[a-z]",
       "dd\\s+.*of=/dev", "curl.*\\|\\s*sh", "wget.*\\|\\s*sh",
       "eval\\s+\\$\\(.*curl", ":\\(\\)\\{.*;\\}:" >>

RmRf(s, target) ==
    \E a \in Pos(s) :
        /\ HasSuffix(s[a], "rm")
        /\ \E b \in Pos(s) :
              /\ Spaces1(s, a, b) /\ s[b] = "-rf"
              /\ \E c \in Pos(s) : Spaces1(s, b, c) /\ HasPrefix(s[c], target)

PipedToShell(s, fetcher) ==
    \E a \in Pos(s) :
        /\ HasInfix(s[a], fetcher)
        /\ \E b \in Pos(s) :
              /\ b > a /\ HasSuffix(s[b], "|")
              /\ \E c \in Pos(s) : Spaces0(s, b, c) /\ HasPrefix(s[c], "sh")

MatchString(pattern, s) ==
    CASE pattern = dangerousPatterns[1] -> RmRf(s, "/")
      [] pattern = dangerousPatterns[2] -> RmRf(s, "*")
      [] pattern = dangerousPatterns[3] ->
            \E a \in Pos(s) :
                /\ HasSuffix(s[a], "sudo")
                /\ \E b \in Pos(s) : Spaces1(s, a, b) /\ HasPrefix(s[b], "rm")
      [] pattern = dangerousPatterns[4] ->
            \E a \in Pos(s) :
                /\ HasSuffix(s[a], ">")
                /\ \E b \in Pos(s) :
                      Spaces0(s, a, b) /\ HasPrefix(s[b], "/dev/sd[a-z]")
      [] pattern = dangerousPatterns[5] ->
            \E a \in Pos(s) :
                /\ HasSuffix(s[a], "dd") /\ a < Len(s) /\ s[a + 1] = " "
                /\ \E b \in Pos(s) : b > a + 1 /\ HasInfix(s[b], "of=/dev")
      [] pattern = dangerousPatterns[6] -> PipedToShell(s, "curl")
      [] pattern = dangerousPatterns[7] -> PipedToShell(s, "wget")
      [] pattern = dangerousPatterns[8] ->
            \E a \in Pos(s) :
                /\ HasSuffix(s[a], "eval")
                /\ \E b \in Pos(s) :
                      /\ Spaces1(s, a, b) /\ HasPrefix(s[b], "$(")
                      /\ \E c \in Pos(s) : c > b /\ HasInfix(s[c], "curl")
      [] pattern = dangerousPatterns[9] ->
            \E a \in Pos(s) :
                /\ HasInfix(s[a], ":(){")
                /\ \E b \in Pos(s) : b > a /\ HasInfix(s[b], ";}:")

(* ValidationSeverity *)
SeverityWarning == 0
SeverityError == 1
SeverityCritical == 2

(* ValidationError.Field: "tools", "tools[0].name", "hooks.g.pre-commit[1]. *)
(* output_rules.show_on", ... kept as its parts                             *)
FieldPath(section, group, type, index, key) ==
    [section |-> section, group |-> group, type |-> type,
     index |-> index, key |-> key]

(* ValidationError.  Issue is the text of the finding without its %s / %d   *)
(* arguments, which are kept in arg and at; Suggestion is a function of     *)
(* Issue and arg and is left out.                                           *)
ValidationError(field, value, issue, arg, at, severity) ==
    [Field |-> field, Value |-> value, Issue |-> issue, arg |-> arg,
     at |-> at, Severity |-> severity]

(* A validation step appends findings; where the code ranges over a map the *)
(* order is not determined, so a step yields a set of possible sequences    *)
Cat(A, B) == {a \o b : a \in A, b \in B}

(* validateToolNames *)
commonTypos ==
    { << <<"prettier">>, "prettier" >>, << <<"pretier">>, "prettier" >>,
      << <<"pretter">>, "prettier" >>, << <<"eslint">>, "eslint" >>,
      << <<"esslint">>, "eslint" >>, << <<"eslinter">>, "eslint" >>,
      << <<"pytest">>, "pytest" >>, << <<"py.test">>, "pytest" >>,
      << <<"ruf">>, "ruff" >>, << <<"ruff", " ">>, "ruff" >>,
      << <<"gofmt", " ">>, "gofmt" >>, << <<"go", " ", "fmt">>, "gofmt" >>,
      << <<"golangci">>, "golangci-lint" >>,
      << <<"golangci-lint">>, "golangci-lint" >> }

validateToolNames(command, fieldPath) ==
    LET cmdLower == ToLower(command)
        hits == {t \in commonTypos :
                    Contains(cmdLower, t[1]) /\ t[1] # <<t[2]>>}
    IN  { [k \in 1..Len(order) |->
              ValidationError(fieldPath, command, "Possible typo",
                              order[k][1], 0, SeverityWarning)] :
          order \in RangeOrders(hits) }

(* validateCommandSyntax *)
validateCommandSyntax(command, fieldPath) ==
    LET singleQuotes == Count(command, "'")
        doubleQuotes == Count(command, "\"")
        single == IF singleQuotes % 2 # 0
                  THEN <<ValidationError(fieldPath, command,
                            "Unmatched single quotes in command", <<>>, 0,
                            SeverityError)>>
                  ELSE <<>>
        double == IF doubleQuotes % 2 # 0
                  THEN <<ValidationError(fieldPath, command,
                            "Unmatched double quotes in command", <<>>, 0,
                            SeverityError)>>
                  ELSE <<>>
    IN  Cat({single \o double}, validateToolNames(command, fieldPath))

(* validateCommand: what the loop does after a pattern has matched *)
AfterMatchContinue(rest) == rest

AfterMatch(rest) == <<>>

(* validateCommand: the loop over dangerousPatterns, from pattern n on *)
RECURSIVE scanDangerousPatterns(_, _, _)
scanDangerousPatterns(command, fieldPath, n) ==
    IF n > Len(dangerousPatterns) THEN <<>>
    ELSE IF MatchString(dangerousPatterns[n], command)
         THEN <<ValidationError(fieldPath, command,
                    "Potentially dangerous command detected", <<>>, 0,
                    SeverityCritical)>>
              \o AfterMatch(scanDangerousPatterns(command, fieldPath, n + 1))
         ELSE scanDangerousPatterns(command, fieldPath, n + 1)

validateCommand(command, fieldPath) ==
    Cat({scanDangerousPatterns(command, fieldPath, 1)},
        validateCommandSyntax(command, fieldPath))

(* validateMessageTemplate *)
validateMessageTemplate(message, fieldPath) ==
    IF Contains(message, <<"{{">>) /\ ~Contains(message, <<"}}">>)
    THEN <<ValidationError(fieldPath, message,
              "Unclosed template variable in message", <<>>, 0,
              SeverityWarning)>>
    ELSE <<>>

(* validateOutputRules *)
validShowOnValues == {"always", "failure", "success"}

validateOutputRules(rules, fieldPath) ==
    LET showOn ==
            IF rules.ShowOn # "" /\ rules.ShowOn \notin validShowOnValues
            THEN <<ValidationError(
                      [fieldPath EXCEPT !.key = Append(@, "show_on")],
                      <<rules.ShowOn>>, "Invalid show_on value", <<>>, 0,
                      SeverityError)>>
            ELSE <<>>
        message ==
            IF rules.OnFailureMessage # <<>>
            THEN validateMessageTemplate(rules.OnFailureMessage,
                      [fieldPath EXCEPT !.key = Append(@, "on_failure_message")])
            ELSE <<>>
    IN  showOn \o message

RECURSIVE CatAll(_)
CatAll(steps) ==
    IF steps = <<>> THEN {<<>>} ELSE Cat(Head(steps), CatAll(Tail(steps)))

(* config.Tool and the fields of tools[idx] (idx counts from 0, as in Go) *)
ConfigTool(name, check, install) ==
    [Name |-> name, CheckCommand |-> check, InstallCommand |-> install]

ToolField(idx, key) == FieldPath("tools", <<>>, "", <<idx>>, <<key>>)

(* validateToolAvailability; exec.LookPath finds the commands of env.path *)
validateToolAvailability(tool, idx, env) ==
    LET parts == Fields(tool.CheckCommand)
        cmdName == parts[1]
    IN  IF Len(parts) = 0 THEN <<>>
        ELSE IF \/ Contains(cmdName, <<"/">>)
                \/ Contains(cmdName, <<"|">>)
                \/ Contains(cmdName, <<"&">>)
        THEN <<>>
        ELSE IF cmdName \notin env.path
        THEN <<ValidationError(ToolField(idx, "check_command"), tool.CheckCommand,
                  "Tool not found in PATH", cmdName, 0, SeverityWarning)>>
        ELSE <<>>

(* validateTools: the body of the loop for tools[idx] *)
validateTool(tool, idx, env) ==
    LET name ==
            IF TrimSpace(tool.Name) = <<>>
            THEN {<<ValidationError(ToolField(idx, "name"), tool.Name,
                      "Tool name is empty", <<>>, 0, SeverityError)>>}
            ELSE {<<>>}
        check ==
            IF TrimSpace(tool.CheckCommand) = <<>>
            THEN {<<ValidationError(ToolField(idx, "check_command"),
                      tool.CheckCommand, "Check command is empty", <<>>, 0,
                      SeverityError)>>}
            ELSE validateCommand(tool.CheckCommand, ToolField(idx, "check_command"))
        install ==
            IF TrimSpace(tool.InstallCommand) = <<>>
            THEN {<<ValidationError(ToolField(idx, "install_command"),
                      tool.InstallCommand, "Install command is empty", <<>>, 0,
                      SeverityWarning)>>}
            ELSE validateCommand(tool.InstallCommand,
                                 ToolField(idx, "install_command"))
    IN  CatAll(<<name, check, install, {validateToolAvailability(tool, idx, env)}>>)

(* validateTools *)
validateTools(config, env) ==
    IF Len(config.Tools) = 0
    THEN {<<ValidationError(FieldPath("tools", <<>>, "", <<>>, <<>>), <<"empty">>,
              "No tools configured", <<>>, 0, SeverityWarning)>>}
    ELSE CatAll([k \in 1..Len(config.Tools) |->
                    validateTool(config.Tools[k], k - 1, env)])

(* validateCommands: the body of the loop for commands[idx] *)
validateHookCommand(cmd, fieldPrefix, idx) ==
    LET field(key) == [fieldPrefix EXCEPT !.index = <<idx>>, !.key = <<key>>]
        name ==
            IF TrimSpace(cmd.Name) = <<>>
            THEN {<<ValidationError(field("name"), cmd.Name,
                      "Command name is empty", <<>>, 0, SeverityError)>>}
            ELSE {<<>>}
        command ==
            IF TrimSpace(cmd.Command) = <<>>
            THEN {<<ValidationError(field("command"), cmd.Command,
                      "Command is empty", <<>>, 0, SeverityCritical)>>}
            ELSE validateCommand(cmd.Command, field("command"))
        fix ==
            IF cmd.FixCommand # <<>>
            THEN validateCommand(cmd.FixCommand, field("fix_command"))
            ELSE {<<>>}
    IN  CatAll(<<name, command, fix,
                 {validateOutputRules(cmd.OutputRules, field("output_rules"))}>>)

(* validateCommands *)
validateCommands(commands, fieldPrefix) ==
    IF Len(commands) = 0
    THEN {<<ValidationError(fieldPrefix, <<"empty">>,
              "No commands configured for this hook", <<>>, 0, SeverityWarning)>>}
    ELSE CatAll([k \in 1..Len(commands) |->
                    validateHookCommand(commands[k], fieldPrefix, k - 1)])

(* validateHooks: the body of the outer loop for one hook group *)
validateHookGroup(hookName, hookGroup) ==
    LET fieldPrefix == FieldPath("hooks", hookName, "", <<>>, <<>>)
        name ==
            IF TrimSpace(hookName) = <<>>
            THEN {<<ValidationError(fieldPrefix, hookName,
                      "Hook group name is empty", <<>>, 0, SeverityError)>>}
            ELSE {<<>>}
        ofType(typeName) ==
            IF Len(hookGroup[typeName]) > 0
            THEN validateCommands(hookGroup[typeName],
                                  [fieldPrefix EXCEPT !.type = typeName])
            ELSE {<<>>}
        types ==
            UNION { CatAll([k \in 1..Len(order) |-> ofType(order[k])]) :
                    order \in RangeOrders(DOMAIN hookGroup) }
        hasAnyHooks == \E t \in DOMAIN hookGroup : Len(hookGroup[t]) > 0
        none ==
            IF ~hasAnyHooks
            THEN {<<ValidationError(fieldPrefix, <<"no hooks">>,
                      "No hook types configured (pre-commit, pre-push)", <<>>, 0,
                      SeverityWarning)>>}
            ELSE {<<>>}
    IN  CatAll(<<name, types, none>>)

(* validateHooks *)
validateHooks(config) ==
    IF DOMAIN config.Hooks = {}
    THEN {<<ValidationError(FieldPath("hooks", <<>>, "", <<>>, <<>>), <<"empty">>,
              "No hooks configured", <<>>, 0, SeverityWarning)>>}
    ELSE UNION { CatAll([k \in 1..Len(order) |->
                            validateHookGroup(order[k], config.Hooks[order[k]])]) :
                 order \in RangeOrders(DOMAIN config.Hooks) }

(* checkCommandToolReferences *)
commonTools ==
    { "prettier", "eslint", "ruff", "black", "pytest", "gofmt", "golangci-lint",
      "rustfmt", "cargo", "php-cs-fixer", "phpstan", "gitleaks" }

ReferencedCommand(command) ==
    LET parts == Fields(command)
    IN  IF HasPrefix(parts[1][1], "npx") /\ Len(parts) > 1
        THEN parts[2] ELSE parts[1]

checkCommandToolReference(cmd, availableTools, fieldPrefix, idx) ==
    LET cmdName == ReferencedCommand(cmd.Command)
    IN  IF Len(Fields(cmd.Command)) = 0 THEN <<>>
        ELSE IF (\E t \in commonTools : cmdName = <<t>>)
                    /\ cmdName \notin availableTools
        THEN <<ValidationError(
                  [fieldPrefix EXCEPT !.index = <<idx>>, !.key = <<"command">>],
                  cmd.Command, "Command uses a tool but no tool configuration found",
                  cmdName, 0, SeverityWarning)>>
        ELSE <<>>

checkCommandToolReferences(commands, availableTools, fieldPrefix) ==
    CatAll([k \in 1..Len(commands) |->
               {checkCommandToolReference(commands[k], availableTools,
                                          fieldPrefix, k - 1)}])

(* validateToolReferences *)
availableToolsOf(config) ==
    { Fields(config.Tools[k].CheckCommand)[1] :
        k \in {j \in 1..Len(config.Tools) :
                  Len(Fields(config.Tools[j].CheckCommand)) > 0} }

validateToolReferences(config) ==
    LET ofType(hookName, typeName) ==
            LET commands == config.Hooks[hookName][typeName]
            IN  IF Len(commands) > 0
                THEN checkCommandToolReferences(commands, availableToolsOf(config),
                         FieldPath("hooks", hookName, typeName, <<>>, <<>>))
                ELSE {<<>>}
        ofGroup(hookName) ==
            UNION { CatAll([k \in 1..Len(order) |-> ofType(hookName, order[k])]) :
                    order \in RangeOrders(DOMAIN config.Hooks[hookName]) }
    IN  UNION { CatAll([k \in 1..Len(order) |-> ofGroup(order[k])]) :
                order \in RangeOrders(DOMAIN config.Hooks) }

(* validateDuplicateToolNames: seen[tool.Name] = idx *)
RecordNothing(seen, name, idx) == seen

Record(seen, name, idx) ==
    [n \in DOMAIN seen \cup {name} |-> IF n = name THEN idx ELSE seen[n]]

RECURSIVE duplicatesFrom(_, _, _)
duplicatesFrom(toolList, k, seen) ==
    IF k > Len(toolList) THEN <<>>
    ELSE LET name == toolList[k].Name
             found ==
                 IF name \in DOMAIN seen
                 THEN <<ValidationError(ToolField(k - 1, "name"), name,
                           "Duplicate tool name", <<>>, seen[name],
                           SeverityError)>>
                 ELSE <<>>
         IN  found \o duplicatesFrom(toolList, k + 1, Record(seen, name, k - 1))

validateDuplicateToolNames(config) == duplicatesFrom(config.Tools, 1, <<>>)

(* validateEssentialHooks *)
validateEssentialHooks(config) ==
    LET hasSecurityHooks ==
            \E hookName \in DOMAIN config.Hooks :
                Contains(ToLower(hookName), <<"security">>)
    IN  IF ~hasSecurityHooks
        THEN <<ValidationError(FieldPath("hooks", <<>>, "", <<>>, <<>>),
                  <<"missing security">>, "No security hooks configured", <<>>, 0,
                  SeverityWarning)>>
        ELSE <<>>

(* validateFileSystem; env.file is what os.Stat("quality.yml") finds: no    *)
(* file, or a file with these permission bits                               *)
FileStates == {"missing", "0600", "0644"}

validateFileSystemSkipped(env) == <<>>

validateFileSystem(env) ==
    IF env.file = "missing"
    THEN <<ValidationError(FieldPath("file", <<>>, "", <<>>, <<>>),
              <<"quality.yml">>, "Cannot access quality.yml file", <<>>, 0,
              SeverityCritical)>>
    ELSE IF env.file = "0600"
    THEN <<ValidationError(FieldPath("file", <<>>, "", <<>>, <<>>),
              <<"quality.yml">>, "quality.yml is not readable", <<>>, 0,
              SeverityError)>>
    ELSE <<>>

(* validateCommonIssues (validateDuplicateHookGroups does nothing) *)
validateCommonIssues(config, env) ==
    validateDuplicateToolNames(config) \o validateEssentialHooks(config)
        \o validateFileSystem(env)

hasCriticalSeverity(errors) ==
    \E k \in 1..Len(errors) : errors[k].Severity = SeverityCritical

hasCriticalOrErrorSeverity(errors) ==
    \E k \in 1..Len(errors) :
        errors[k].Severity = SeverityCritical \/ errors[k].Severity = SeverityError

(* Validate: the results it can return *)
Validate(config, env) ==
    { [Valid |-> ~hasCriticalOrErrorSeverity(errors), Errors |-> errors] :
      errors \in CatAll(<<validateTools(config, env), validateHooks(config),
                           validateToolReferences(config),
                           {validateCommonIssues(config, env)}>>) }

----------------------------------------------------------------------------
(* Inputs of the validator *)

(* The words of ws joined by single spaces *)
RECURSIVE Words(_)
Words(ws) ==
    IF Len(ws) <= 1 THEN ws ELSE <<Head(ws), " ">> \o Words(Tail(ws))

RECURSIVE SeqsUpTo(_, _)
SeqsUpTo(S, n) ==
    IF n = 0 THEN {<<>>}
    ELSE LET shorter == SeqsUpTo(S, n - 1)
         IN  shorter \cup {Append(q, x) : q \in {r \in shorter : Len(r) = n - 1},
                                          x \in S}

ValToolPool ==
    { ConfigTool(<<"Prettier">>, Words(<<"npx", "prettier", "--version">>),
                 Words(<<"npm", "install", "prettier">>)),
      ConfigTool(<<"Prettier">>, Words(<<"prettier", "--version">>), <<>>),
      ConfigTool(<<" ">>, Words(<<"gitleaks", "version">>), <<" ">>),
      ConfigTool(<<"Black">>, <<" ">>,
                 Words(<<"curl", "https://x", "|", "sh">>)) }

ValToolLists == SeqsUpTo(ValToolPool, MaxValTools)

SecretDetection ==
    Hook(Words(<<"Secret", "Detection">>), Words(<<"gitleaks", "detect">>), <<>>,
         OutputRules("failure", Words(<<"Secrets", "detected!">>)))

FormatCheck ==
    Hook(<<"Format">>, Words(<<"npx", "prettier", "--check", ".">>),
         Words(<<"npx", "prettier", "--write", ".">>), OutputRules("always", <<>>))

LintCheck ==
    Hook(<<"Lint">>, Words(<<"ruff", "check", ".">>), <<>>,
         OutputRules("", Words(<<"{{", "a", "}}">>)))

CustomCheck ==
    Hook(<<"Custom">>, Words(<<"mytool", "run">>), <<>>,
         OutputRules("never", Words(<<"{{", "a">>)))

BlankHook == Hook(<<>>, <<>>, <<>>, OutputRules("", <<>>))

DangerousHook ==
    Hook(<<"Danger">>, Words(<<"sudo", "rm", "-rf", "/">>),
         <<"echo", " ", "'", "oops">>, OutputRules("success", <<>>))

ValHookMaps ==
    { <<>>,
      <<"security">> :> ("pre-commit" :> <<SecretDetection>>),
      <<"quality">> :> ("pre-commit" :> <<FormatCheck>>),
      (<<"security">> :> ("pre-commit" :> <<SecretDetection>>))
          @@ (<<"quality">> :> (("pre-commit" :> <<FormatCheck, LintCheck>>)
                                  @@ ("pre-push" :> <<CustomCheck>>))),
      <<"quality">> :> ("pre-commit" :> <<>>),
      <<"quality">> :> <<>>,
      <<" ">> :> ("pre-commit" :> <<BlankHook, DangerousHook>>),
      <<"app-security-checks">> :> (("pre-push" :> <<LintCheck>>)
                                      @@ ("pre-commit" :> <<CustomCheck>>)) }

ValConfigs == [Tools : ValToolLists, Hooks : ValHookMaps]

PathCommands == {<<"npx">>, <<"prettier">>, <<"black">>, <<"gitleaks">>}

ValEnvs == [file : FileStates, path : {{}, PathCommands}]

CommandLexemes == {"rm", " ", "-rf", "/", "curl", "|", "sh"}

CommandPool ==
    { Words(<<"sudo", "rm", "-rf", "/">>), Words(<<"rm", "-rf", "*">>),
      Words(<<"echo", "x", ">", "/dev/sda">>),
      Words(<<"dd", "if=x", "of=/dev/sda">>),
      Words(<<"wget", "https://x", "|", "sh">>),
      <<"eval", " ", "$(", "curl", " ", "https://x", ")">>,
      <<":(){", " ", ":|:&", " ", ";}:", ";", ":">>,
      Words(<<"curl", "https://x", "|", "sudo", "rm", "-rf", "/">>),
      Words(<<"npx", "prettier", "--check", ".">>),
      Words(<<"rmdir", "-rf", "/">>), Words(<<"ruff", "check", ".">>),
      <<"echo", " ", "'", "rm", " ", "-rf", " ", "/">> }

MessageLexemes == {"{{", "}}", "a", " "}

CommandTexts == SeqsUpTo(CommandLexemes, MaxTextLen) \cup CommandPool

MessageTexts == SeqsUpTo(MessageLexemes, MaxTextLen)

----------------------------------------------------------------------------
(* The validator applied to the inputs above *)

RunIdle ==
    /\ present = {}
    /\ op = ""
    /\ cfg = [Tools |-> <<>>, Hooks |-> <<>>]
    /\ hookType = ""
    /\ pc = "idle"
    /\ i = 0
    /\ tools = <<>>
    /\ hooks = <<>>
    /\ fixHook = Hook("", "", "", OutputRules("", ""))
    /\ results = <<>>
    /\ calls = <<>>
    /\ log = <<>>
    /\ spinner = ""
    /\ ensureRet = NotReturned
    /\ ret = NotReturned

InitValidate ==
    /\ RunIdle
    /\ DetectorIdle
    /\ RestIdle
    /\ vpc = "Validate"
    /\ vcfg \in ValConfigs
    /\ venv \in ValEnvs
    /\ vtext = <<>>
    /\ vres = [Valid |-> TRUE, Errors |-> <<>>]

CallValidate ==
    /\ vpc = "Validate"
    /\ vres' \in Validate(vcfg, venv)
    /\ vpc' = "Validate returned"
    /\ UNCHANGED <<vcfg, venv, vtext, runVars, detVars, restVars>>

NextValidate == CallValidate

SpecValidate == InitValidate /\ [][NextValidate]_vars

(* validateCommand and validateOutputRules applied to one string, as        *)
(* validateCommands applies them to the first hook of a group               *)
TextField == FieldPath("hooks", <<"quality">>, "pre-commit", <<0>>, <<"command">>)

RulesField ==
    FieldPath("hooks", <<"quality">>, "pre-commit", <<0>>, <<"output_rules">>)

InitText ==
    /\ RunIdle
    /\ DetectorIdle
    /\ RestIdle
    /\ \/ vpc = "validateCommand" /\ vtext \in CommandTexts
       \/ vpc = "validateOutputRules" /\ vtext \in MessageTexts
    /\ vcfg = [Tools |-> <<>>, Hooks |-> <<>>]
    /\ venv = [file |-> "missing", path |-> {}]
    /\ vres = [Valid |-> TRUE, Errors |-> <<>>]

CallValidateCommand ==
    /\ vpc = "validateCommand"
    /\ \E errors \in validateCommand(vtext, TextField) :
          vres' = [vres EXCEPT !.Errors = errors]
    /\ vpc' = "validateCommand returned"
    /\ UNCHANGED <<vcfg, venv, vtext, runVars, detVars, restVars>>

CallValidateOutputRules ==
    /\ vpc = "validateOutputRules"
    /\ vres' = [vres EXCEPT !.Errors =
                   validateOutputRules(OutputRules("failure", vtext), RulesField)]
    /\ vpc' = "validateOutputRules returned"
    /\ UNCHANGED <<vcfg, venv, vtext, runVars, detVars, restVars>>

NextText == CallValidateCommand \/ CallValidateOutputRules

SpecText == InitText /\ [][NextText]_vars

----------------------------------------------------------------------------
(* LanguageDetector: DetectProjectStructure and what it calls.              *)
(*                                                                          *)
(* A file or directory name is one lexeme.  What os.ReadFile and the JSON   *)
(* decoder make of a manifest is its content: whether it could be read and  *)
(* decoded, and the names it lists (the keys of its dependency maps, or the *)
(* lines of requirements.txt).                                              *)

LanguageGo == "go"
LanguageNode == "node"
LanguagePython == "python"
LanguageRust == "rust"
LanguagePHP == "php"
LanguageJava == "java"
LanguageDocker == "docker"
LanguageTypeScript == "typescript"
LanguageReact == "react"
LanguageVue == "vue"
LanguageAngular == "angular"
LanguageDjango == "django"
LanguageFastAPI == "fastapi"
LanguageFlask == "flask"
LanguageLaravel == "laravel"

ProjectStructure(languages, frameworks, toolNames, structure) ==
    [Languages |-> languages, Frameworks |-> frameworks, Tools |-> toolNames,
     Structure |-> structure]

EmptyStructure == ProjectStructure(<<>>, <<>>, <<>>, <<>>)

Content(ok, names) == [ok |-> ok, names |-> names]

Unreadable == Content(FALSE, <<>>)

Range(q) == {q[k] : k \in 1..Len(q)}

hasLanguage(lang, structure) ==
    \E k \in 1..Len(structure.Languages) : structure.Languages[k] = lang

addLanguageIfNotExists(lang, structure) ==
    IF ~hasLanguage(lang, structure)
    THEN [structure EXCEPT !.Languages = Append(@, lang)]
    ELSE structure

addFrameworkIfNotExists(framework, structure) ==
    IF \E k \in 1..Len(structure.Frameworks) : structure.Frameworks[k] = framework
    THEN structure
    ELSE [structure EXCEPT !.Frameworks = Append(@, framework)]

addToolAlways(tool, structure) ==
    [structure EXCEPT !.Tools = Append(@, tool)]

addToolIfNotExists(tool, structure) ==
    IF \E k \in 1..Len(structure.Tools) : structure.Tools[k] = tool
    THEN structure
    ELSE [structure EXCEPT !.Tools = Append(@, tool)]

(* structure.Structure[key] = append(structure.Structure[key], fullPath) *)
appendPath(key, fullPath, structure) ==
    LET m == structure.Structure
    IN  [structure EXCEPT !.Structure =
            IF key \in DOMAIN m
            THEN [m EXCEPT ![key] = Append(@, fullPath)]
            ELSE [x \in DOMAIN m \cup {key} |->
                     IF x = key THEN <<fullPath>> ELSE m[x]]]

(* The loops "for _, tool := range tools" over a slice *)
RECURSIVE addListedTools(_, _, _)
addListedTools(toolNames, allDeps, structure) ==
    IF toolNames = <<>> THEN structure
    ELSE addListedTools(Tail(toolNames), allDeps,
             IF Head(toolNames) \in allDeps
             THEN addToolIfNotExists(Head(toolNames), structure)
             ELSE structure)

(* analyzePackageJson *)
analyzePackageJson(content, structure) ==
    IF ~content.ok THEN structure
    ELSE LET allDeps == Range(content.names)
             s1 == IF "typescript" \in allDeps
                   THEN addLanguageIfNotExists(LanguageTypeScript, structure)
                   ELSE structure
             s2 == IF "react" \in allDeps
                   THEN addFrameworkIfNotExists(LanguageReact, s1) ELSE s1
             s3 == IF "vue" \in allDeps
                   THEN addFrameworkIfNotExists(LanguageVue, s2) ELSE s2
             s4 == IF "@angular/core" \in allDeps
                   THEN addFrameworkIfNotExists(LanguageAngular, s3) ELSE s3
         IN  addListedTools(<<"eslint", "prettier", "jest", "vitest", "cypress",
                              "playwright">>, allDeps, s4)

(* strings.FieldsFunc(line, r is one of = > < ! ~) *)
VersionOperators == {"==", ">=", "<=", "!=", "~=", "=", ">", "<", "!", "~"}

RECURSIVE FieldsFuncFrom(_, _)
FieldsFuncFrom(s, word) ==
    IF s = <<>>
    THEN IF word = <<>> THEN <<>> ELSE <<word>>
    ELSE IF Head(s) \in VersionOperators
         THEN (IF word = <<>> THEN <<>> ELSE <<word>>)
                  \o FieldsFuncFrom(Tail(s), <<>>)
         ELSE FieldsFuncFrom(Tail(s), Append(word, Head(s)))

RECURSIVE addContainedTools(_, _, _)
addContainedTools(toolNames, packageName, structure) ==
    IF toolNames = <<>> THEN structure
    ELSE addContainedTools(Tail(toolNames), packageName,
             IF Contains(packageName, <<Head(toolNames)>>)
             THEN addToolIfNotExists(Head(toolNames), structure)
             ELSE structure)

(* analyzePythonRequirements: the body of the loop for one line *)
analyzeRequirement(rawLine, structure) ==
    LET line == TrimSpace(ToLower(rawLine))
        parts == FieldsFuncFrom(line, <<>>)
        packageName == TrimSpace(parts[1])
        s1 == IF Contains(packageName, <<"django">>)
              THEN addFrameworkIfNotExists(LanguageDjango, structure)
              ELSE IF Contains(packageName, <<"fastapi">>)
              THEN addFrameworkIfNotExists(LanguageFastAPI, structure)
              ELSE IF Contains(packageName, <<"flask">>)
              THEN addFrameworkIfNotExists(LanguageFlask, structure)
              ELSE structure
    IN  IF line = <<>> \/ HasPrefix(line[1], "#") THEN structure
        ELSE IF Len(parts) = 0 THEN structure
        ELSE addContainedTools(<<"black", "ruff", "flake8", "mypy", "pytest",
                                 "isort">>, packageName, s1)

(* analyzePythonRequirements; content.names are the lines of the file *)
RECURSIVE analyzeRequirements(_, _)
analyzeRequirements(lines, structure) ==
    IF lines = <<>> THEN structure
    ELSE analyzeRequirements(Tail(lines), analyzeRequirement(Head(lines), structure))

analyzePythonRequirements(content, structure) ==
    IF ~content.ok THEN structure
    ELSE analyzeRequirements(content.names, structure)

(* analyzeComposerJson: the map tools *)
composerTools ==
    { <<"phpunit/phpunit", "phpunit">>, <<"squizlabs/php_codesniffer", "phpcs">>,
      <<"friendsofphp/php-cs-fixer", "php-cs-fixer">>,
      <<"phpstan/phpstan", "phpstan">>, <<"psalm/phar", "psalm">> }

RECURSIVE addToolsInOrder(_, _)
addToolsInOrder(order, structure) ==
    IF order = <<>> THEN structure
    ELSE addToolsInOrder(Tail(order), addToolIfNotExists(Head(order)[2], structure))

(* analyzeComposerJson: the structures it can leave.  The loop ranges over  *)
(* the map tools in an order that is not determined; the entries whose      *)
(* dependency is absent have no effect, so the outcome is fixed by the      *)
(* order in which the loop meets the entries that are present.              *)
analyzeComposerJson(content, structure) ==
    IF ~content.ok THEN {structure}
    ELSE LET allDeps == Range(content.names)
             s1 == IF "laravel/framework" \in allDeps
                   THEN addFrameworkIfNotExists(LanguageLaravel, structure)
                   ELSE structure
             found == {t \in composerTools : t[1] \in allDeps}
         IN  {addToolsInOrder(order, s1) : order \in RangeOrders(found)}

(* strings.ToLower(filepath.Ext(filename)) for the extensions analyzeFile   *)
(* looks at; "" stands for every other extension                            *)
Ext(filename) ==
    CASE filename \in {"b.ts"} -> ".ts"
      [] filename \in {"app.tsx", "App.TSX"} -> ".tsx"
      [] filename \in {"a.js", "index.js"} -> ".js"
      [] filename \in {"view.jsx"} -> ".jsx"
      [] filename \in {"tool.mjs"} -> ".mjs"
      [] filename \in {"out.py", "setup.py"} -> ".py"
      [] filename \in {"main.go"} -> ".go"
      [] filename \in {"lib.rs"} -> ".rs"
      [] filename \in {"index.php"} -> ".php"
      [] filename \in {"Main.java"} -> ".java"
      [] filename \in {"Main.kt"} -> ".kt"
      [] filename \in {"Main.scala"} -> ".scala"
      [] OTHER -> ""

(* analyzeFile: the switch on the file name *)
analyzeFileName(fullPath, filename, content, structure) ==
    IF filename \in {"go.mod", "go.sum"}
    THEN {appendPath("go", fullPath, addLanguageIfNotExists(LanguageGo, structure))}
    ELSE IF filename = "package.json"
    THEN {analyzePackageJson(content,
              appendPath("node", fullPath,
                  addLanguageIfNotExists(LanguageNode, structure)))}
    ELSE IF filename \in {"package-lock.json", "yarn.lock", "pnpm-lock.yaml"}
    THEN {addLanguageIfNotExists(LanguageNode, structure)}
    ELSE IF filename \in {"requirements.txt", "setup.py", "pyproject.toml",
                          "Pipfile", "poetry.lock"}
    THEN LET s1 == appendPath("python", fullPath,
                       addLanguageIfNotExists(LanguagePython, structure))
         IN  IF filename = "requirements.txt"
             THEN {analyzePythonRequirements(content, s1)}
             ELSE {s1}
    ELSE IF filename \in {"Cargo.toml", "Cargo.lock"}
    THEN {appendPath("rust", fullPath,
              addLanguageIfNotExists(LanguageRust, structure))}
    ELSE IF filename \in {"composer.json", "composer.lock"}
    THEN LET s1 == appendPath("php", fullPath,
                       addLanguageIfNotExists(LanguagePHP, structure))
         IN  IF filename = "composer.json"
             THEN analyzeComposerJson(content, s1)
             ELSE {s1}
    ELSE IF filename \in {"pom.xml", "build.gradle", "gradle.properties"}
    THEN {appendPath("java", fullPath,
              addLanguageIfNotExists(LanguageJava, structure))}
    ELSE IF filename \in {"Dockerfile", "docker-compose.yml", "docker-compose.yaml"}
    THEN {appendPath("docker", fullPath,
              addLanguageIfNotExists(LanguageDocker, structure))}
    ELSE {structure}

(* analyzeFile: the switch on the extension *)
analyzeFileExt(filename, structure) ==
    LET ext == Ext(filename)
    IN  IF ext \in {".ts", ".tsx"}
        THEN addLanguageIfNotExists(LanguageTypeScript, structure)
        ELSE IF ext \in {".js", ".jsx", ".mjs"}
        THEN IF ~hasLanguage(LanguageTypeScript, structure)
             THEN addLanguageIfNotExists(LanguageNode, structure)
             ELSE structure
        ELSE IF ext = ".py" THEN addLanguageIfNotExists(LanguagePython, structure)
        ELSE IF ext = ".go" THEN addLanguageIfNotExists(LanguageGo, structure)
        ELSE IF ext = ".rs" THEN addLanguageIfNotExists(LanguageRust, structure)
        ELSE IF ext = ".php" THEN addLanguageIfNotExists(LanguagePHP, structure)
        ELSE IF ext \in {".java", ".kt", ".scala"}
        THEN addLanguageIfNotExists(LanguageJava, structure)
        ELSE structure

(* analyzeFile: the structures it can leave *)
analyzeFile(fullPath, filename, content, structure) ==
    { analyzeFileExt(filename, s1) :
        s1 \in analyzeFileName(fullPath, filename, content, structure) }

(* shouldSkipDirectory *)
skipDirs ==
    { ".git", ".svn", ".hg", "node_modules", "vendor", "target", ".venv", "venv",
      "__pycache__", ".next", ".nuxt", "dist", "build", ".idea", ".vscode" }

shouldSkipListedOnly(dirname) == dirname \in skipDirs

shouldSkipDirectory(dirname) == dirname \in skipDirs \/ HasPrefix(dirname, ".")

(* The entries a tree can hold below its root, in the order filepath.Walk   *)
(* reaches them: a directory before what it holds, the names of one         *)
(* directory in lexical order.  dirs is the path from the root to the       *)
(* directory that holds the entry.                                          *)
Entry(dirs, name, isDir) == [dirs |-> dirs, name |-> name, isDir |-> isDir]

TreeEntries ==
    << Entry(<<>>, ".hidden", TRUE),
       Entry(<<".hidden">>, "main.go", FALSE),
       Entry(<<>>, "a.js", FALSE),
       Entry(<<>>, "b.ts", FALSE),
       Entry(<<>>, "composer.json", FALSE),
       Entry(<<>>, "node_modules", TRUE),
       Entry(<<"node_modules">>, "index.js", FALSE),
       Entry(<<>>, "package.json", FALSE),
       Entry(<<>>, "requirements.txt", FALSE),
       Entry(<<>>, "src", TRUE),
       Entry(<<"src">>, "build", TRUE),
       Entry(<<"src", "build">>, "out.py", FALSE),
       Entry(<<"src">>, "main.go", FALSE) >>

EntryPath(e) == Append(e.dirs, e.name)

IsBeneath(e, dir) ==
    Len(e.dirs) >= Len(dir) /\ SubSeq(e.dirs, 1, Len(dir)) = dir

FileEntries == {k \in DOMAIN TreeEntries : ~TreeEntries[k].isDir}

(* The entry k is in the tree: a file of the tree, or a directory that      *)
(* holds a file of the tree or is one of its unreadable directories         *)
InTree(tree, k) ==
    LET e == TreeEntries[k]
    IN  IF e.isDir
        THEN \/ EntryPath(e) \in tree.unreadable
             \/ \E f \in tree.files : IsBeneath(TreeEntries[f], EntryPath(e))
        ELSE k \in tree.files

(* filepath.SkipDir: the walk goes on after the subtree of dir *)
RECURSIVE skipSubtree(_, _)
skipSubtree(k, dir) ==
    IF k > Len(TreeEntries) \/ ~IsBeneath(TreeEntries[k], dir) THEN k
    ELSE skipSubtree(k + 1, dir)

(* What DetectProjectStructure returns; analysed lists the files that were  *)
(* handed to analyzeFile, in order (an observation, not part of the value)  *)
ScanResult(structure, err, analysed) ==
    [structure |-> structure, err |-> err, analysed |-> analysed]

(* filepath.Walk from entry k on, with the callback of                      *)
(* DetectProjectStructure                                                   *)
RECURSIVE walk(_, _, _, _)
walk(tree, k, structure, analysed) ==
    IF k > Len(TreeEntries) THEN {ScanResult(structure, FALSE, analysed)}
    ELSE LET e == TreeEntries[k]
             fullPath == <<tree.root>> \o EntryPath(e)
             content == IF e.name \in DOMAIN tree.content
                        THEN tree.content[e.name] ELSE Unreadable
         IN  IF ~InTree(tree, k) THEN walk(tree, k + 1, structure, analysed)
             ELSE IF e.isDir /\ shouldSkipDirectory(e.name)
             THEN walk(tree, skipSubtree(k + 1, EntryPath(e)), structure, analysed)
             ELSE IF e.isDir /\ EntryPath(e) \in tree.unreadable
             THEN {ScanResult(EmptyStructure, TRUE, analysed)}
             ELSE IF e.isDir THEN walk(tree, k + 1, structure, analysed)
             ELSE UNION { walk(tree, k + 1, s1, Append(analysed, fullPath)) :
                          s1 \in analyzeFile(fullPath, e.name, content, structure) }

(* DetectProjectStructure: the results it can return *)
DetectProjectStructure(tree) ==
    IF shouldSkipDirectory(tree.root)
    THEN {ScanResult(EmptyStructure, FALSE, <<>>)}
    ELSE walk(tree, 1, EmptyStructure, <<>>)

----------------------------------------------------------------------------
(* Inputs of the detector *)

RootNames == {"project", "build", "."}

UnreadableDirs == {{}, {<<"src">>}, {<<".hidden">>}}

ComposerContents ==
    { Unreadable, Content(TRUE, <<"phpunit/phpunit">>),
      Content(TRUE, <<"laravel/framework", "phpunit/phpunit", "phpstan/phpstan">>) }

PackageContents ==
    { Unreadable, Content(TRUE, <<"typescript", "react", "eslint">>) }

RequirementsContents ==
    { Content(TRUE, << <<"#", " ", "tests">>, <<"Django", ">=", "4">>,
                       <<" ", "pytest-django", " ">>, <<>> >>) }

ContentsOf(name) ==
    CASE name = "composer.json" -> ComposerContents
      [] name = "package.json" -> PackageContents
      [] name = "requirements.txt" -> RequirementsContents

Manifests(files) ==
    {TreeEntries[k].name : k \in files}
        \cap {"composer.json", "package.json", "requirements.txt"}

ManifestContents(files) ==
    { content \in [Manifests(files) ->
                      ComposerContents \cup PackageContents
                          \cup RequirementsContents] :
        \A name \in Manifests(files) : content[name] \in ContentsOf(name) }

DetTrees ==
    UNION { { [root |-> root, files |-> files, unreadable |-> unreadable,
               content |-> content] :
              root \in RootNames, unreadable \in UnreadableDirs,
              content \in ManifestContents(files) } :
            files \in SUBSET FileEntries }

----------------------------------------------------------------------------
(* DetectProjectStructure called on one tree, MaxScans times at most *)

InitDetect ==
    /\ RunIdle
    /\ ValidatorIdle
    /\ RestIdle
    /\ dtree \in DetTrees
    /\ dscans = <<>>

Scan ==
    /\ Len(dscans) < MaxScans
    /\ \E r \in DetectProjectStructure(dtree) : dscans' = Append(dscans, r)
    /\ UNCHANGED <<dtree, runVars, valVars, restVars>>

NextDetect == Scan

SpecDetect == InitDetect /\ [][NextDetect]_vars

----------------------------------------------------------------------------
(* Observations on a validation result *)

Findings == {vres.Errors[k] : k \in 1..Len(vres.Errors)}

FindingIndexes(issue) == {k \in 1..Len(vres.Errors) : vres.Errors[k].Issue = issue}

Serious(f) == f.Severity = SeverityError \/ f.Severity = SeverityCritical

Blank(s) == \A k \in 1..Len(s) : s[k] = " "

----------------------------------------------------------------------------
(* C11: for every configuration the result of Validate has Valid = false    *)
(* if and only if its findings hold at least one Error or Critical; only    *)
(* Warnings, or no finding at all, give Valid = true.                       *)
C11_ValidIffNoErrorOrCritical ==
    vpc = "Validate returned" =>
        (vres.Valid = FALSE <=> \E f \in Findings : Serious(f))

(* An invalid result that holds Errors and no Critical *)
C11_Witness ==
    /\ vpc = "Validate returned"
    /\ vres.Valid = FALSE
    /\ \E f \in Findings : f.Severity = SeverityError
    /\ \A f \in Findings : f.Severity # SeverityCritical

----------------------------------------------------------------------------
(* C12 as stated: Validate on a configuration with an empty tools list and  *)
(* an empty hooks map returns an invalid result with exactly one tools-     *)
(* empty Warning, exactly one hooks-empty Warning and no Error or Critical. *)
EmptyConfig == vcfg.Tools = <<>> /\ DOMAIN vcfg.Hooks = {}

WarningsOf(issue) ==
    {k \in FindingIndexes(issue) : vres.Errors[k].Severity = SeverityWarning}

----------------------------------------------------------------------------
(* C13: validateCommand adds exactly one Critical "dangerous command"       *)
(* finding for a command that matches at least one destructive pattern,     *)
(* also when it matches several, and no Critical for one that matches none. *)
MatchedPatterns(command) ==
    {n \in DOMAIN dangerousPatterns : MatchString(dangerousPatterns[n], command)}

CriticalIndexes == {k \in 1..Len(vres.Errors) : vres.Errors[k].Severity = SeverityCritical}

C13_OneCriticalPerDangerousCommand ==
    vpc = "validateCommand returned" =>
        /\ MatchedPatterns(vtext) # {} =>
              /\ Cardinality(CriticalIndexes) = 1
              /\ \A k \in CriticalIndexes :
                    vres.Errors[k].Issue = "Potentially dangerous command detected"
        /\ MatchedPatterns(vtext) = {} => CriticalIndexes = {}

(* A command that matches several patterns *)
C13_Witness ==
    /\ vpc = "validateCommand returned"
    /\ Cardinality(MatchedPatterns(vtext)) > 1
    /\ Cardinality(CriticalIndexes) = 1

----------------------------------------------------------------------------
(* C14: the duplicate-tool-name check emits exactly one Error for every     *)
(* tool whose name already occurred at a lower index and none for a first   *)
(* occurrence, and the Error cites an earlier index holding the same name;  *)
(* k tools sharing one name yield exactly k-1 such Errors.                  *)
DuplicatesAt(k) ==
    {d \in FindingIndexes("Duplicate tool name") :
        vres.Errors[d].Field = ToolField(k - 1, "name")}

EarlierSameName(k) ==
    {j \in 1..(k - 1) : vcfg.Tools[j].Name = vcfg.Tools[k].Name}

SameName(k) ==
    {j \in 1..Len(vcfg.Tools) : vcfg.Tools[j].Name = vcfg.Tools[k].Name}

C14_DuplicateToolNames ==
    vpc = "Validate returned" =>
        /\ \A k \in 1..Len(vcfg.Tools) :
              /\ Cardinality(DuplicatesAt(k)) =
                     IF EarlierSameName(k) = {} THEN 0 ELSE 1
              /\ \A d \in DuplicatesAt(k) :
                    /\ vres.Errors[d].Severity = SeverityError
                    /\ vres.Errors[d].at + 1 \in EarlierSameName(k)
              /\ Cardinality(UNION {DuplicatesAt(j) : j \in SameName(k)}) =
                     Cardinality(SameName(k)) - 1
        /\ \A d \in FindingIndexes("Duplicate tool name") :
              \E k \in 1..Len(vcfg.Tools) : d \in DuplicatesAt(k)

(* Three tools share one name: two duplicate-name Errors *)
C14_Witness ==
    /\ vpc = "Validate returned"
    /\ \E k \in 1..Len(vcfg.Tools) : Cardinality(SameName(k)) = 3
    /\ Cardinality(FindingIndexes("Duplicate tool name")) = 2

----------------------------------------------------------------------------
(* C15: for every tool of a non-empty tools list a blank (empty or white-   *)
(* space-only) name yields an Error, a blank check command yields an Error, *)
(* and a blank install command yields only a Warning, so that a tool that   *)
(* lacks nothing but its install command does not by itself make the        *)
(* configuration invalid.                                                   *)
FindingsAt(field) == {f \in Findings : f.Field = field}

FindingsOfTool(k) ==
    {f \in Findings : f.Field.section = "tools" /\ f.Field.index = <<k - 1>>}

C15_BlankToolFields ==
    vpc = "Validate returned" =>
        \A k \in 1..Len(vcfg.Tools) :
            LET tool == vcfg.Tools[k]
            IN  /\ Blank(tool.Name) <=>
                      \E f \in FindingsAt(ToolField(k - 1, "name")) :
                          f.Issue = "Tool name is empty" /\ f.Severity = SeverityError
                /\ Blank(tool.CheckCommand) <=>
                      \E f \in FindingsAt(ToolField(k - 1, "check_command")) :
                          f.Issue = "Check command is empty"
                              /\ f.Severity = SeverityError
                /\ Blank(tool.InstallCommand) <=>
                      \E f \in FindingsAt(ToolField(k - 1, "install_command")) :
                          f.Issue = "Install command is empty"
                /\ Blank(tool.InstallCommand) =>
                      \A f \in FindingsAt(ToolField(k - 1, "install_command")) :
                          f.Severity = SeverityWarning
                /\ (/\ Blank(tool.InstallCommand)
                    /\ ~Blank(tool.Name)
                    /\ ~Blank(tool.CheckCommand)) =>
                      \A f \in FindingsOfTool(k) :
                          Serious(f) => \/ f.Issue = "Duplicate tool name"
                                        \/ f.Field.key = <<"check_command">>

(* The only tool lacks its install command, and the result is valid *)
C15_Witness ==
    /\ vpc = "Validate returned"
    /\ Len(vcfg.Tools) = 1
    /\ Blank(vcfg.Tools[1].InstallCommand)
    /\ ~Blank(vcfg.Tools[1].Name)
    /\ ~Blank(vcfg.Tools[1].CheckCommand)
    /\ \E f \in FindingsOfTool(1) : f.Issue = "Install command is empty"
    /\ vres.Valid = TRUE

----------------------------------------------------------------------------
(* C16: for every hook failure message the output-rule check emits a        *)
(* Warning whenever the message's "{{" and "}}" delimiters are unbalanced   *)
(* (one closed variable followed by an unclosed one, a "}}" without a       *)
(* "{{") and none when they are balanced.                                   *)
RECURSIVE BalancedFrom(_, _)
BalancedFrom(message, open) ==
    IF message = <<>> THEN ~open
    ELSE IF Head(message) = "{{" THEN ~open /\ BalancedFrom(Tail(message), TRUE)
    ELSE IF Head(message) = "}}" THEN open /\ BalancedFrom(Tail(message), FALSE)
    ELSE BalancedFrom(Tail(message), open)

Balanced(message) == BalancedFrom(message, FALSE)

C16_UnbalancedTemplateWarned ==
    vpc = "validateOutputRules returned" =>
        (~Balanced(vtext) <=>
            \E f \in Findings :
                /\ f.Issue = "Unclosed template variable in message"
                /\ f.Severity = SeverityWarning)

----------------------------------------------------------------------------
(* C17: the cross-reference check emits a Warning for a hook exactly when   *)
(* the leading token of its command (the token after the wrapper for        *)
(* "npx X ...") is a well-known tool identifier absent from the configured  *)
(* Tools; a hook whose tool is configured gets none, also when the tool's   *)
(* own check command uses the wrapper; a tool outside the table never does. *)
ConfiguredTools ==
    { ReferencedCommand(vcfg.Tools[k].CheckCommand) :
        k \in {j \in 1..Len(vcfg.Tools) : ~Blank(vcfg.Tools[j].CheckCommand)} }

HookPositions ==
    { <<g, t, k>> \in UNION { UNION { {<<g1, t1, k1>> : k1 \in 1..Len(vcfg.Hooks[g1][t1])} :
                                       t1 \in DOMAIN vcfg.Hooks[g1] } :
                              g1 \in DOMAIN vcfg.Hooks } : TRUE }

ReferenceWarned(g, t, k) ==
    \E f \in FindingsAt(FieldPath("hooks", g, t, <<k - 1>>, <<"command">>)) :
        /\ f.Issue = "Command uses a tool but no tool configuration found"
        /\ f.Severity = SeverityWarning

C17_ToolReferenceWarnings ==
    vpc = "Validate returned" =>
        \A p \in HookPositions :
            LET command == vcfg.Hooks[p[1]][p[2]][p[3]].Command
            IN  IF Blank(command) THEN ~ReferenceWarned(p[1], p[2], p[3])
                ELSE ReferenceWarned(p[1], p[2], p[3]) <=>
                        /\ \E t \in commonTools : ReferencedCommand(command) = <<t>>
                        /\ ReferencedCommand(command) \notin ConfiguredTools

----------------------------------------------------------------------------
(* Observations on the scans of a tree *)

ScanIndexes == 1..Len(dscans)

Detected(r) == <<r.structure.Languages, r.structure.Frameworks, r.structure.Tools>>

(* C18: DetectProjectStructure is idempotent: two scans of the same         *)
(* unmodified tree return equal Languages, Frameworks and Tools, as ordered *)
(* sequences, also when composer.json declares several recognised PHP tools *)
C18_ScansAgree ==
    \A a, b \in ScanIndexes :
        /\ dscans[a].err = dscans[b].err
        /\ Detected(dscans[a]) = Detected(dscans[b])

AnalysedNames(r) == {r.analysed[k][Len(r.analysed[k])] : k \in 1..Len(r.analysed)}

NodeManifests == {"package.json", "package-lock.json", "yarn.lock", "pnpm-lock.yaml"}

(* C19: a scan that analysed TypeScript files and generic .js/.jsx/.mjs     *)
(* files of a tree without Node manifest or lock file returns Languages     *)
(* with typescript and without node                                         *)
C19_TypeScriptCoversScripts ==
    \A a \in ScanIndexes :
        LET r == dscans[a]
        IN  (/\ ~r.err
             /\ \E n \in AnalysedNames(r) : Ext(n) \in {".ts", ".tsx"}
             /\ \E n \in AnalysedNames(r) : Ext(n) \in {".js", ".jsx", ".mjs"}
             /\ \A f \in dtree.files : TreeEntries[f].name \notin NodeManifests)
            => /\ hasLanguage(LanguageTypeScript, r.structure)
               /\ ~hasLanguage(LanguageNode, r.structure)

(* The base names that are pruned, as the claim states them *)
PrunedName(name) ==
    \/ name \in { ".git", ".svn", ".hg", "node_modules", "vendor", "target",
                  ".venv", "venv", "__pycache__", ".next", ".nuxt", "dist",
                  "build", ".idea", ".vscode" }
    \/ name \in {".", "..", ".hidden"}

BeneathPruned(e) ==
    PrunedName(dtree.root) \/ \E k \in 1..Len(e.dirs) : PrunedName(e.dirs[k])

(* The files of the tree that are not beneath a pruned directory, in the    *)
(* order of the traversal                                                   *)
RECURSIVE UnprunedFilesFrom(_)
UnprunedFilesFrom(k) ==
    IF k > Len(TreeEntries) THEN <<>>
    ELSE (IF k \in dtree.files /\ ~BeneathPruned(TreeEntries[k])
          THEN << <<dtree.root>> \o EntryPath(TreeEntries[k]) >>
          ELSE <<>>) \o UnprunedFilesFrom(k + 1)

C20_WitnessRoot ==
    /\ dtree.root = "build"
    /\ Manifests(dtree.files) # {}
    /\ \E a \in ScanIndexes : dscans[a].structure = EmptyStructure

----------------------------------------------------------------------------
(* TemplateGenerator: GenerateTemplate and what it calls.                   *)
(*                                                                          *)
(* A text is the sequence of its lines, the pieces that "\n" separates; a   *)
(* line is the format fmt.Sprintf is given and its arguments.  A command or *)
(* fix command is the sequence of the pieces it is put together from, the   *)
(* empty string being the empty sequence.  The emoji that begin the names   *)
(* of the commands are left out.                                            *)

ToolTemplate(name, check, install) ==
    [Name |-> name, CheckCommand |-> check, InstallCommand |-> install]

CommandTemplate(name, command, fixCommand, outputRules) ==
    [Name |-> name, Command |-> command, FixCommand |-> fixCommand,
     OutputRules |-> outputRules]

HookTemplate(name, description, commands) ==
    [Name |-> name, Description |-> description, Commands |-> commands]

(* map[string]string{"show_on": showOn} *)
ShowOnRule(showOn) == [key \in {"show_on"} |-> showOn]

(* map[string]string{"show_on": showOn, "on_failure_message": message} *)
ShowOnAndMessage(showOn, message) ==
    [key \in {"show_on", "on_failure_message"} |->
        IF key = "show_on" THEN showOn ELSE message]

(* map[string]string{"on_failure_message": message} *)
MessageRule(message) == [key \in {"on_failure_message"} |-> message]

FormatMessage ==
    "Code formatting issues detected. Run './quality-gate --fix' to format."

(* getLanguageTools *)
getLanguageTools(lang) ==
    IF lang = LanguageGo
    THEN << ToolTemplate("Gofmt", "gofmt -h",
                         "# gofmt is included with Go installation"),
            ToolTemplate("Golangci-lint", "golangci-lint --version",
                "go install github.com/golangci/golangci-lint/cmd/golangci-lint@latest") >>
    ELSE IF lang = LanguagePython
    THEN << ToolTemplate("Ruff (Python Linter/Formatter)", "ruff --version",
                         "pip install ruff"),
            ToolTemplate("Black (Python Formatter)", "black --version",
                         "pip install black"),
            ToolTemplate("MyPy (Type Checker)", "mypy --version",
                         "pip install mypy") >>
    ELSE IF lang \in {LanguageNode, LanguageTypeScript}
    THEN << ToolTemplate("Prettier (Code Formatter)", "npx prettier --version",
                         "npm install --save-dev prettier"),
            ToolTemplate("ESLint (Linter)", "npx eslint --version",
                         "npm install --save-dev eslint") >>
    ELSE IF lang = LanguageRust
    THEN << ToolTemplate("Rustfmt", "rustfmt --version",
                         "rustup component add rustfmt"),
            ToolTemplate("Clippy", "cargo clippy --version",
                         "rustup component add clippy") >>
    ELSE IF lang = LanguagePHP
    THEN << ToolTemplate("PHP CS Fixer", "php-cs-fixer --version",
                         "composer global require friendsofphp/php-cs-fixer"),
            ToolTemplate("PHPStan", "phpstan --version",
                         "composer require --dev phpstan/phpstan") >>
    ELSE IF lang = LanguageJava
    THEN << ToolTemplate("Checkstyle", "checkstyle --version",
                "# Install via package manager or Maven/Gradle plugin") >>
    ELSE <<>>

(* getFrameworkTools *)
getFrameworkTools(framework) ==
    IF framework = LanguageReact
    THEN << ToolTemplate("React DevTools Lint", "npx eslint-plugin-react --version",
                         "npm install --save-dev eslint-plugin-react") >>
    ELSE IF framework = LanguageDjango
    THEN << ToolTemplate("Django Check", "python manage.py check --help",
                         "# Django check is built-in") >>
    ELSE IF framework = LanguageLaravel
    THEN << ToolTemplate("Laravel Pint", "pint --version",
                         "composer require laravel/pint --dev") >>
    ELSE <<>>

(* strings.ToLower of the tool names of the tables above *)
ToLowerName(name) ==
    CASE name = "Gitleaks" -> "gitleaks"
      [] name = "Gofmt" -> "gofmt"
      [] name = "Golangci-lint" -> "golangci-lint"
      [] name = "Ruff (Python Linter/Formatter)" -> "ruff (python linter/formatter)"
      [] name = "Black (Python Formatter)" -> "black (python formatter)"
      [] name = "MyPy (Type Checker)" -> "mypy (type checker)"
      [] name = "Prettier (Code Formatter)" -> "prettier (code formatter)"
      [] name = "ESLint (Linter)" -> "eslint (linter)"
      [] name = "Rustfmt" -> "rustfmt"
      [] name = "Clippy" -> "clippy"
      [] name = "PHP CS Fixer" -> "php cs fixer"
      [] name = "PHPStan" -> "phpstan"
      [] name = "Checkstyle" -> "checkstyle"
      [] name = "React DevTools Lint" -> "react devtools lint"
      [] name = "Django Check" -> "django check"
      [] name = "Laravel Pint" -> "laravel pint"
      [] OTHER -> name

(* generateTools: !seen[strings.ToLower(tool.Name)] *)
UnseenAlways(seen, name) == TRUE

Unseen(seen, name) == ToLowerName(name) \notin seen

(* generateTools: the inner loops; acc holds the slice tools and the map seen *)
RECURSIVE appendUnseen(_, _)
appendUnseen(templates, acc) ==
    IF templates = <<>> THEN acc
    ELSE appendUnseen(Tail(templates),
             IF Unseen(acc.seen, Head(templates).Name)
             THEN [list |-> Append(acc.list, Head(templates)),
                   seen |-> acc.seen \cup {ToLowerName(Head(templates).Name)}]
             ELSE acc)

RECURSIVE appendLanguageTools(_, _)
appendLanguageTools(languages, acc) ==
    IF languages = <<>> THEN acc
    ELSE appendLanguageTools(Tail(languages),
             appendUnseen(getLanguageTools(Head(languages)), acc))

RECURSIVE appendFrameworkTools(_, _)
appendFrameworkTools(frameworks, acc) ==
    IF frameworks = <<>> THEN acc
    ELSE appendFrameworkTools(Tail(frameworks),
             appendUnseen(getFrameworkTools(Head(frameworks)), acc))

(* generateTools *)
generateTools(structure) ==
    LET gitleaks == ToolTemplate("Gitleaks", "gitleaks version",
                        "go install github.com/gitleaks/gitleaks/v8@latest")
        first == [list |-> <<gitleaks>>, seen |-> {"gitleaks"}]
    IN  appendFrameworkTools(structure.Frameworks,
            appendLanguageTools(structure.Languages, first)).list

(* A HookTemplate{} *)
NoHooks == HookTemplate("", "", <<>>)

(* generateSecurityHooks *)
generateSecurityHooksEmpty ==
    HookTemplate("security", "Security checks for all projects", <<>>)

generateSecurityHooks ==
    HookTemplate("security", "Security checks for all projects",
        << CommandTemplate("Secret Detection (Gitleaks)",
               <<"gitleaks detect --no-git --source . --verbose">>, <<>>,
               MessageRule("Secret leak detected! Review your code before committing.")) >>)

(* generateGoHooks *)
generateGoHooks ==
    HookTemplate("go-backend", "Quality checks for Go projects",
        << CommandTemplate("Format Check (gofmt)", <<"gofmt -l .">>, <<"gofmt -w .">>,
               ShowOnAndMessage("failure", FormatMessage)),
           CommandTemplate("Lint (golangci-lint)", <<"golangci-lint run ./...">>, <<>>,
               ShowOnRule("failure")),
           CommandTemplate("Tests", <<"go test ./...">>, <<>>, ShowOnRule("always")) >>)

(* generatePythonHooks: strings.Contains(dir, "python") for the keys of     *)
(* structure.Structure, which analyzeFile takes from go, node, python,      *)
(* rust, php, java and docker                                               *)
ContainsPython(dir) == dir = "python"

(* generatePythonHooks: the hook templates it can return.  pythonDirs ends  *)
(* with the matching keys of structure.Structure in the order the range     *)
(* over the map meets them; targetDir is the first element of pythonDirs.   *)
generatePythonHooks(structure) ==
    LET found == {dir \in DOMAIN structure.Structure : ContainsPython(dir)}
        hook(pythonDirs) ==
            LET targetDir == Head(pythonDirs)
            IN  HookTemplate("python-backend", "Quality checks for Python projects",
                    << CommandTemplate("Format Check (Ruff)",
                           <<"ruff format ", targetDir, " --check">>,
                           <<"ruff format ", targetDir>>,
                           ShowOnAndMessage("failure", FormatMessage)),
                       CommandTemplate("Lint (Ruff)", <<"ruff check ", targetDir>>,
                           <<>>, ShowOnRule("failure")),
                       CommandTemplate("Tests (pytest)", <<"pytest">>, <<>>,
                           ShowOnRule("always")) >>)
    IN  { hook(<<".", "src", "app", "backend">> \o order) :
            order \in RangeOrders(found) }

(* TemplateGenerator.hasLanguage *)
hasLanguageIn(target, languages) ==
    \E k \in 1..Len(languages) : languages[k] = target

(* TemplateGenerator.hasFramework *)
hasFramework(target, frameworks) ==
    \E k \in 1..Len(frameworks) : frameworks[k] = target

(* strings.Join(patterns, " ") *)
RECURSIVE JoinSpace(_)
JoinSpace(patterns) ==
    IF patterns = <<>> THEN <<>>
    ELSE IF Len(patterns) = 1 THEN patterns
    ELSE <<Head(patterns), " ">> \o JoinSpace(Tail(patterns))

(* generateNodeHooks *)
generateNodeHooks(structure) ==
    LET patterns == <<"'**/*.js'">>
            \o (IF hasLanguageIn(LanguageTypeScript, structure.Languages)
                THEN <<"'**/*.ts'", "'**/*.tsx'">> ELSE <<>>)
            \o (IF hasFramework(LanguageReact, structure.Frameworks)
                THEN <<"'**/*.jsx'">> ELSE <<>>)
        patternStr == JoinSpace(patterns)
    IN  HookTemplate("typescript-frontend",
            "Quality checks for Node.js/TypeScript projects",
            << CommandTemplate("Format Check (Prettier)",
                   <<"npx prettier --check ">> \o patternStr,
                   <<"npx prettier --write ">> \o patternStr,
                   ShowOnAndMessage("failure", FormatMessage)),
               CommandTemplate("Lint (ESLint)", <<"npx eslint ">> \o patternStr, <<>>,
                   ShowOnRule("failure")),
               CommandTemplate("Tests", <<"npm test">>, <<>>, ShowOnRule("always")) >>)

(* generateRustHooks *)
generateRustHooks ==
    HookTemplate("rust-backend", "Quality checks for Rust projects",
        << CommandTemplate("Format Check (rustfmt)", <<"cargo fmt -- --check">>,
               <<"cargo fmt">>, ShowOnAndMessage("failure", FormatMessage)),
           CommandTemplate("Lint (Clippy)", <<"cargo clippy -- -D warnings">>, <<>>,
               ShowOnRule("failure")),
           CommandTemplate("Tests", <<"cargo test">>, <<>>, ShowOnRule("always")) >>)

(* generatePHPHooks *)
generatePHPHooks(structure) ==
    HookTemplate("php-backend", "Quality checks for PHP projects",
        << CommandTemplate("Format Check (PHP CS Fixer)",
               <<"php-cs-fixer fix --dry-run --diff">>, <<"php-cs-fixer fix">>,
               ShowOnAndMessage("failure", FormatMessage)),
           CommandTemplate("Static Analysis (PHPStan)", <<"phpstan analyse">>, <<>>,
               ShowOnRule("failure")),
           CommandTemplate("Tests (PHPUnit)", <<"phpunit">>, <<>>,
               ShowOnRule("always")) >>)

(* generateReactHooks *)
generateReactHooks ==
    HookTemplate("react-frontend", "Additional quality checks for React projects",
        << CommandTemplate("React Lint", <<"npx eslint --ext .jsx,.tsx .">>, <<>>,
               ShowOnRule("failure")) >>)

(* generateDjangoHooks *)
generateDjangoHooks ==
    HookTemplate("django-backend", "Additional quality checks for Django projects",
        << CommandTemplate("Django Check", <<"python manage.py check">>, <<>>,
               ShowOnRule("always")),
           CommandTemplate("Migration Check",
               <<"python manage.py makemigrations --dry-run --check">>, <<>>,
               ShowOnRule("failure")) >>)

(* generateLaravelHooks *)
generateLaravelHooks ==
    HookTemplate("laravel-backend", "Additional quality checks for Laravel projects",
        << CommandTemplate("Format Check (Laravel Pint)", <<"pint --test">>, <<"pint">>,
               ShowOnAndMessage("failure", FormatMessage)) >>)

(* generateLanguageHooks: the hook templates it can return *)
generateLanguageHooks(lang, structure) ==
    IF lang = LanguageGo THEN {generateGoHooks}
    ELSE IF lang = LanguagePython THEN generatePythonHooks(structure)
    ELSE IF lang \in {LanguageNode, LanguageTypeScript}
    THEN {generateNodeHooks(structure)}
    ELSE IF lang = LanguageRust THEN {generateRustHooks}
    ELSE IF lang = LanguagePHP THEN {generatePHPHooks(structure)}
    ELSE {NoHooks}

(* generateFrameworkHooks *)
generateFrameworkHooks(framework, structure) ==
    IF framework = LanguageReact THEN generateReactHooks
    ELSE IF framework = LanguageDjango THEN generateDjangoHooks
    ELSE IF framework = LanguageLaravel THEN generateLaravelHooks
    ELSE NoHooks

(* generateHooks: if len(hook.Commands) > 0 { hooks = append(hooks, hook) } *)
appendHook(hook) == IF Len(hook.Commands) > 0 THEN <<hook>> ELSE <<>>

RECURSIVE appendLanguageHooks(_, _)
appendLanguageHooks(languages, structure) ==
    IF languages = <<>> THEN {<<>>}
    ELSE Cat({appendHook(hook) :
                 hook \in generateLanguageHooks(Head(languages), structure)},
             appendLanguageHooks(Tail(languages), structure))

RECURSIVE appendFrameworkHooks(_, _)
appendFrameworkHooks(frameworks, structure) ==
    IF frameworks = <<>> THEN <<>>
    ELSE appendHook(generateFrameworkHooks(Head(frameworks), structure))
             \o appendFrameworkHooks(Tail(frameworks), structure)

(* generateHooks: the hook lists it can return *)
generateHooks(structure) ==
    Cat(Cat({appendHook(generateSecurityHooks)},
            appendLanguageHooks(structure.Languages, structure)),
        {appendFrameworkHooks(structure.Frameworks, structure)})

(* fmt.Sprintf(format, args...), and a line that is a constant string *)
Sprintf(format, args) == [format |-> format, args |-> args]

ConstLine(text) == Sprintf(text, <<>>)

(* formatToolsSection: the lines of one tool *)
toolLines(tool) ==
    << Sprintf("  - name: \"%s\"", <<tool.Name>>),
       Sprintf("    check_command: \"%s\"", <<tool.CheckCommand>>),
       Sprintf("    install_command: \"%s\"", <<tool.InstallCommand>>),
       ConstLine("") >>

RECURSIVE allToolLines(_)
allToolLines(templates) ==
    IF templates = <<>> THEN <<>>
    ELSE toolLines(Head(templates)) \o allToolLines(Tail(templates))

(* formatToolsSection *)
formatToolsSection(templates) == <<ConstLine("tools:")>> \o allToolLines(templates)

(* formatHooksSection: the order in which the range over cmd.OutputRules    *)
(* meets its keys                                                           *)
RuleOrders(outputRules) == RangeOrders(DOMAIN outputRules)

(* formatHooksSection: the lines one command can give *)
commandLines(cmd) ==
    LET head == << Sprintf("      - name: \"%s\"", <<cmd.Name>>),
                   Sprintf("        command: \"%s\"", <<cmd.Command>>) >>
                \o (IF cmd.FixCommand # <<>>
                    THEN <<Sprintf("        fix_command: \"%s\"", <<cmd.FixCommand>>)>>
                    ELSE <<>>)
        rules(order) ==
            IF Len(order) > 0
            THEN <<ConstLine("        output_rules:")>>
                 \o [k \in 1..Len(order) |->
                        Sprintf("          %s: \"%s\"",
                                <<order[k], cmd.OutputRules[order[k]]>>)]
            ELSE <<>>
    IN  { head \o rules(order) \o <<ConstLine("")>> :
            order \in RuleOrders(cmd.OutputRules) }

RECURSIVE allCommandLines(_)
allCommandLines(commands) ==
    IF commands = <<>> THEN {<<>>}
    ELSE Cat(commandLines(Head(commands)), allCommandLines(Tail(commands)))

(* formatHooksSection: the lines one hook group can give *)
hookLines(hook) ==
    Cat({ <<Sprintf("  %s:", <<hook.Name>>)>>
          \o (IF hook.Description # ""
              THEN <<Sprintf("    # %s", <<hook.Description>>)>> ELSE <<>>)
          \o <<ConstLine("    pre-commit:")>> },
        allCommandLines(hook.Commands))

RECURSIVE allHookLines(_)
allHookLines(templates) ==
    IF templates = <<>> THEN {<<>>}
    ELSE Cat(hookLines(Head(templates)), allHookLines(Tail(templates)))

(* formatHooksSection: the texts it can return *)
formatHooksSection(templates) == Cat({<<ConstLine("hooks:")>>}, allHookLines(templates))

(* strings.Join(sections, "\n\n"): "\n\n" puts one empty line between the   *)
(* last line of a section and the first line of the next                    *)
RECURSIVE JoinSections(_)
JoinSections(sections) ==
    IF sections = <<>> THEN <<>>
    ELSE IF Len(sections) = 1 THEN Head(sections)
    ELSE Head(sections) \o <<ConstLine("")>> \o JoinSections(Tail(sections))

(* GenerateTemplate: the texts it can return *)
GenerateTemplate(structure) ==
    LET templates == generateTools(structure)
        toolSections == IF Len(templates) > 0
                        THEN <<formatToolsSection(templates)>> ELSE <<>>
    IN  UNION { { JoinSections(toolSections
                      \o (IF Len(hookList) > 0 THEN <<section>> ELSE <<>>)) :
                  section \in formatHooksSection(hookList) } :
                hookList \in generateHooks(structure) }

----------------------------------------------------------------------------
(* Inputs of the generator: structures as DetectProjectStructure leaves     *)
(* them, Languages and Frameworks without repetitions                       *)

GenLanguages ==
    { LanguageGo, LanguageNode, LanguagePython, LanguageRust, LanguagePHP,
      LanguageJava, LanguageDocker, LanguageTypeScript }

GenFrameworks == {LanguageReact, LanguageVue, LanguageDjango, LanguageLaravel}

DistinctSeqs(S, n) ==
    {q \in SeqsUpTo(S, n) : \A a, b \in 1..Len(q) : a # b => q[a] # q[b]}

GenPaths(languages) ==
    {<<>>} \cup
    (IF hasLanguageIn(LanguagePython, languages)
     THEN {[dir \in {"python"} |-> << <<"project", "requirements.txt">> >>]}
     ELSE {})

GenStructures ==
    UNION { { ProjectStructure(languages, frameworks, <<>>, paths) :
              frameworks \in DistinctSeqs(GenFrameworks, MaxFrameworks),
              paths \in GenPaths(languages) } :
            languages \in DistinctSeqs(GenLanguages, MaxLanguages) }

----------------------------------------------------------------------------
(* GenerateTemplate called on one structure, any number of times; the text  *)
(* of a call is kept until the call after the next has returned             *)

InitGenerate ==
    /\ RunIdle
    /\ ValidatorIdle
    /\ DetectorIdle
    /\ AnalysisIdle
    /\ invocations = <<>>
    /\ gstruct \in GenStructures
    /\ gtexts = <<>>

Generate ==
    /\ \E text \in GenerateTemplate(gstruct) :
          gtexts' = IF gtexts = <<>> THEN <<text>>
                    ELSE <<gtexts[Len(gtexts)], text>>
    /\ UNCHANGED <<gstruct, runVars, valVars, detVars, anaVars, invocations>>

NextGenerate == Generate

SpecGenerate == InitGenerate /\ [][NextGenerate]_vars

----------------------------------------------------------------------------
(* Observations on the generated texts *)

TextIndexes == 1..Len(gtexts)

(* C21: GenerateTemplate is deterministic: two calls on equal structures    *)
(* return the same text, line for line, also when a command has both the    *)
(* show_on and the on_failure_message output rule                           *)
C21_SameText ==
    \A a, b \in TextIndexes : gtexts[a] = gtexts[b]

(* Reading a generated text back: the lines of a format, and the argument   *)
(* of the first line of a format among the lines from..to                   *)
LinesOf(text, format, from, to) ==
    SelectSeq([k \in 1..(to - from + 1) |-> from + k - 1],
              LAMBDA k : text[k].format = format)

(* The line after the last line of the entry that starts at line start,     *)
(* entries starting at the lines starts and none lasting beyond line to     *)
EntryEnd(starts, start, to) ==
    LET later == {starts[k] : k \in {j \in 1..Len(starts) : starts[j] > start}}
    IN  IF later = {} THEN to
        ELSE (CHOOSE x \in later : \A y \in later : x <= y) - 1

ArgOf(text, format, from, to) ==
    LET found == LinesOf(text, format, from, to)
    IN  IF found = <<>> THEN <<>> ELSE text[found[1]].args[1]

(* The names of the tool entries of a text, in order *)
ToolEntryNames(text) ==
    LET found == LinesOf(text, "  - name: \"%s\"", 1, Len(text))
    IN  [k \in 1..Len(found) |-> text[found[k]].args[1]]

(* The output rules of the command entry at lines from..to *)
RulesOf(text, from, to) ==
    LET found == LinesOf(text, "          %s: \"%s\"", from, to)
    IN  {text[found[k]].args : k \in 1..Len(found)}

(* The command entries of the hook group at lines from..to, in order *)
CommandEntries(text, from, to) ==
    LET starts == LinesOf(text, "      - name: \"%s\"", from, to)
    IN  [k \in 1..Len(starts) |->
            LET last == EntryEnd(starts, starts[k], to)
            IN  [name |-> text[starts[k]].args[1],
                 command |-> ArgOf(text, "        command: \"%s\"", starts[k], last),
                 fix |-> ArgOf(text, "        fix_command: \"%s\"", starts[k], last),
                 rules |-> RulesOf(text, starts[k], last)]]

(* The hook groups of a text, in order *)
HookGroups(text) ==
    LET starts == LinesOf(text, "  %s:", 1, Len(text))
    IN  [k \in 1..Len(starts) |->
            [name |-> text[starts[k]].args[1],
             commands |-> CommandEntries(text, starts[k],
                              EntryEnd(starts, starts[k], Len(text)))]]

GroupNames(text) ==
    LET groups == HookGroups(text) IN [k \in 1..Len(groups) |-> groups[k].name]

(* C22: every generated document has the Gitleaks secret-scanning tool as   *)
(* its first tool entry and the security hook group, with the gitleaks      *)
(* command, as its first hook group, whatever the structure                 *)
C22_SecurityFloor ==
    \A a \in TextIndexes :
        LET text == gtexts[a]
            groups == HookGroups(text)
        IN  /\ text[1] = ConstLine("tools:")
            /\ text[2] = Sprintf("  - name: \"%s\"", <<"Gitleaks">>)
            /\ text[3] = Sprintf("    check_command: \"%s\"", <<"gitleaks version">>)
            /\ ToolEntryNames(text)[1] = "Gitleaks"
            /\ Len(groups) >= 1
            /\ groups[1].name = "security"
            /\ Len(groups[1].commands) = 1
            /\ groups[1].commands[1].command =
                   <<"gitleaks detect --no-git --source . --verbose">>

(* A text generated for a structure without languages and frameworks *)
C22_Witness ==
    /\ gstruct.Languages = <<>>
    /\ gstruct.Frameworks = <<>>
    /\ Len(gtexts) >= 1
    /\ Len(HookGroups(gtexts[1])) = 1

(* The group names that begin with the name of a language *)
NamedAfter(groupName, lang) ==
    <<lang, groupName>> \in
        { <<"go", "go-backend">>, <<"python", "python-backend">>,
          <<"typescript", "typescript-frontend">>, <<"rust", "rust-backend">>,
          <<"php", "php-backend">> }

(* A group with a format check and its fix, a lint and a test command *)
FormatLintTest(group) ==
    /\ Len(group.commands) = 3
    /\ group.commands[1].fix # <<>>
    /\ <<"show_on", "failure">> \in group.commands[1].rules
    /\ group.commands[2].fix = <<>>
    /\ <<"show_on", "failure">> \in group.commands[2].rules
    /\ group.commands[3].fix = <<>>
    /\ <<"show_on", "always">> \in group.commands[3].rules

(* C23: for every language of the structure, in recorded order, the         *)
(* document holds the language's tools and a hook group named after the     *)
(* language with a format check and its fix (show_on failure), a lint       *)
(* (show_on failure) and a test command (show_on always)                    *)
C23_LanguageGroups ==
    \A a \in TextIndexes :
        LET text == gtexts[a]
            groups == HookGroups(text)
            names == ToolEntryNames(text)
            langs == gstruct.Languages
        IN  \E at \in [1..Len(langs) -> 1..Len(groups)] :
                /\ \A j, k \in 1..Len(langs) : j < k => at[j] < at[k]
                /\ \A k \in 1..Len(langs) :
                      /\ NamedAfter(groups[at[k]].name, langs[k])
                      /\ FormatLintTest(groups[at[k]])
                      /\ \A t \in 1..Len(getLanguageTools(langs[k])) :
                            \E n \in 1..Len(names) :
                                names[n] = getLanguageTools(langs[k])[t].Name

(* The first occurrences of the names of a list, case ignored *)
RECURSIVE FirstOccurrences(_, _)
FirstOccurrences(names, lowered) ==
    IF names = <<>> THEN <<>>
    ELSE IF ToLowerName(Head(names)) \in lowered
    THEN FirstOccurrences(Tail(names), lowered)
    ELSE <<Head(names)>>
         \o FirstOccurrences(Tail(names), lowered \cup {ToLowerName(Head(names))})

(* The names of the tools of a list of tool lists, in order *)
RECURSIVE ContributedNames(_)
ContributedNames(lists) ==
    IF lists = <<>> THEN <<>>
    ELSE [k \in 1..Len(Head(lists)) |-> Head(lists)[k].Name]
         \o ContributedNames(Tail(lists))

(* C24: no two tool entries of a generated document have names that are     *)
(* equal ignoring case; of the tools that Gitleaks, the languages and the   *)
(* frameworks contribute, in this order, the first of a name is kept        *)
C24_ToolsDeduplicated ==
    \A a \in TextIndexes :
        LET names == ToolEntryNames(gtexts[a])
        IN  /\ \A j, k \in 1..Len(names) :
                  j # k => ToLowerName(names[j]) # ToLowerName(names[k])
            /\ names = FirstOccurrences(
                           <<"Gitleaks">>
                           \o ContributedNames(
                                  [k \in 1..Len(gstruct.Languages) |->
                                      getLanguageTools(gstruct.Languages[k])])
                           \o ContributedNames(
                                  [k \in 1..Len(gstruct.Frameworks) |->
                                      getFrameworkTools(gstruct.Frameworks[k])]),
                           {})

(* A text generated for a structure with node and typescript, which         *)
(* contribute the same two tools                                            *)
C24_Witness ==
    /\ hasLanguageIn(LanguageNode, gstruct.Languages)
    /\ hasLanguageIn(LanguageTypeScript, gstruct.Languages)
    /\ Len(gtexts) >= 1
    /\ Len(ToolEntryNames(gtexts[1])) = 3

(* C28: the hook-group names of a generated document are pairwise distinct, *)
(* also when node and typescript are both among the languages               *)
C28_GroupNamesDistinct ==
    \A a \in TextIndexes :
        LET names == GroupNames(gtexts[a])
        IN  \A j, k \in 1..Len(names) : j # k => names[j] # names[k]

----------------------------------------------------------------------------
(* analyzeFile called on one ProjectStructure for any files in any order,   *)
(* MaxFileCalls times at most                                               *)

PlainFiles ==
    { "go.mod", "yarn.lock", "Cargo.toml", "pom.xml", "Dockerfile", "setup.py",
      "composer.lock", "a.js", "b.ts", "main.go" }

AnalysedFiles ==
    {[name |-> name, content |-> Unreadable] : name \in PlainFiles}
    \cup {[name |-> "package.json", content |-> content] :
            content \in PackageContents \cup {Content(TRUE, <<"prettier", "eslint">>)}}
    \cup {[name |-> "composer.json", content |-> content] : content \in ComposerContents}
    \cup {[name |-> "requirements.txt", content |-> content] :
            content \in RequirementsContents}

InitAnalyze ==
    /\ RunIdle
    /\ ValidatorIdle
    /\ DetectorIdle
    /\ GeneratorIdle
    /\ invocations = <<>>
    /\ astruct = EmptyStructure
    /\ acalls = 0

AnalyzeFile ==
    /\ acalls < MaxFileCalls
    /\ \E file \in AnalysedFiles :
          astruct' \in analyzeFile(<<"project", file.name>>, file.name,
                                   file.content, astruct)
    /\ acalls' = acalls + 1
    /\ UNCHANGED <<runVars, valVars, detVars, genVars, invocations>>

NextAnalyze == AnalyzeFile

SpecAnalyze == InitAnalyze /\ [][NextAnalyze]_vars

----------------------------------------------------------------------------
(* Observations on the structure analyzeFile works on *)

NoRepetition(q) == \A a, b \in 1..Len(q) : a # b => q[a] # q[b]

IsPrefix(q, r) == Len(q) <= Len(r) /\ SubSeq(r, 1, Len(q)) = q

StructureSets ==
    /\ NoRepetition(astruct.Languages)
    /\ NoRepetition(astruct.Frameworks)
    /\ NoRepetition(astruct.Tools)

AppendOnly ==
    /\ IsPrefix(astruct.Languages, astruct'.Languages)
    /\ IsPrefix(astruct.Frameworks, astruct'.Frameworks)
    /\ IsPrefix(astruct.Tools, astruct'.Tools)

(* C27: after any sequence of analyzeFile calls on one structure none of    *)
(* Languages, Frameworks and Tools holds an element twice, and a call only  *)
(* appends to them: what was present stays, in the same order               *)
C27_InsertionOrderedSets == [](StructureSets) /\ [][AppendOnly]_vars

(* package.json was analysed more than once and left a framework and tools *)
C27_Witness ==
    /\ acalls = MaxFileCalls
    /\ "node" \in DOMAIN astruct.Structure
    /\ Len(astruct.Structure["node"]) >= 2
    /\ astruct.Frameworks = <<"react">>
    /\ Len(astruct.Tools) >= 2

----------------------------------------------------------------------------
(* Run and Fix on configurations with several hook groups and several       *)
(* hook-type keys; Run invoked again on the same configuration, each        *)
(* invocation a process of its own that finds the environment the one       *)
(* before left                                                              *)

HookNamed(name) == CHOOSE h \in HookPool : h.Name = name

BackendEntries ==
    { <<>>,
      "pre-commit" :> <<HookNamed("h2"), HookNamed("h1")>>,
      ("pre-commit" :> <<HookNamed("h3")>>) @@ ("pre-push" :> <<HookNamed("h5")>>),
      "pre-push" :> <<HookNamed("h5")>> }

FrontendEntries ==
    { "pre-commit" :> <<HookNamed("h4")>>,
      ("pre-commit" :> <<HookNamed("h6"), HookNamed("h2")>>)
          @@ ("pre-push" :> <<HookNamed("h7")>>),
      "pre-push" :> <<HookNamed("h7")>> }

GroupHooks ==
    {<<>>}
    \cup {"backend" :> b : b \in BackendEntries}
    \cup {"frontend" :> f : f \in FrontendEntries}
    \cup {("backend" :> b) @@ ("frontend" :> f) :
            b \in BackendEntries, f \in FrontendEntries}

GroupConfigs == {[Tools |-> ts, Hooks |-> hk] : ts \in ToolLists, hk \in GroupHooks}

GroupHookTypes == {"pre-commit", "pre-push", "commit-msg"}

InitGroups ==
    /\ present \in SUBSET {ToolSeq[k].Name : k \in 1..MaxTools}
    /\ op = ""
    /\ cfg = [Tools |-> <<>>, Hooks |-> <<>>]
    /\ hookType = ""
    /\ pc = "idle"
    /\ i = 0
    /\ tools = <<>>
    /\ hooks = <<>>
    /\ fixHook = Hook("", "", "", OutputRules("", ""))
    /\ results = <<>>
    /\ calls = <<>>
    /\ log = <<>>
    /\ spinner = ""
    /\ ensureRet = NotReturned
    /\ ret = NotReturned
    /\ ValidatorIdle
    /\ DetectorIdle
    /\ RestIdle

(* What is kept of an invocation of Run that has returned: whether RunHooks *)
(* was reached, the hook commands in the order they were executed, and the  *)
(* hooks of the returned results and of the emitted markers, in order       *)
Invocation ==
    [ran |-> ensureRet.returned /\ ensureRet.err = NoErr,
     commands |-> LET ran == SelectSeq(calls, LAMBDA inv :
                                 \E h \in HookPool : h.Command = inv.cmd)
                  IN  [k \in 1..Len(ran) |-> ran[k].cmd],
     results |-> [k \in 1..Len(ret.results) |-> ret.results[k].Hook.Name],
     output |-> LET marks == SelectSeq(log, LAMBDA e : e.kind \in {"passed", "failed"})
                IN  [k \in 1..Len(marks) |-> marks[k].text]]

(* Run has returned and the program is started again with the same config   *)
(* file and hook type: main calls Run, Run calls EnsureToolsInstalled       *)
RunAgain ==
    /\ pc = "done"
    /\ op = "Run"
    /\ Len(invocations) + 1 < MaxInvocations
    /\ invocations' = Append(invocations, Invocation)
    /\ tools' = configToolsToDomain(cfg.Tools)
    /\ i' = 1
    /\ pc' = "ensure"
    /\ hooks' = <<>>
    /\ results' = <<>>
    /\ calls' = <<>>
    /\ log' = <<>>
    /\ ensureRet' = NotReturned
    /\ ret' = NotReturned
    /\ UNCHANGED <<present, op, cfg, hookType, fixHook, spinner>>
    /\ UNCHANGED <<valVars, detVars, genVars, anaVars>>

NextGroups ==
    \/ pc = "idle" /\ \E c \in GroupConfigs :
           \E type \in GroupHookTypes : CallRun(c, type) /\ UNCHANGED <<valVars, detVars, restVars>>
    \/ EnsureNext /\ UNCHANGED <<valVars, detVars, restVars>>
    \/ CheckReturn /\ UNCHANGED <<valVars, detVars, restVars>>
    \/ InstallReturn /\ UNCHANGED <<valVars, detVars, restVars>>
    \/ EnsureDone /\ UNCHANGED <<valVars, detVars, restVars>>
    \/ HookNext /\ UNCHANGED <<valVars, detVars, restVars>>
    \/ HookReturn /\ UNCHANGED <<valVars, detVars, restVars>>
    \/ HooksDone /\ UNCHANGED <<valVars, detVars, restVars>>
    \/ RunAgain
    \/ pc = "idle" /\ \E c \in GroupConfigs :
           \E type \in GroupHookTypes : CallFix(c, type) /\ UNCHANGED <<valVars, detVars, restVars>>
    \/ FixSkip /\ UNCHANGED <<valVars, detVars, restVars>>
    \/ FixCall /\ UNCHANGED <<valVars, detVars, restVars>>
    \/ FixDone /\ UNCHANGED <<valVars, detVars, restVars>>
    \/ RunFixCommandStart /\ UNCHANGED <<valVars, detVars, restVars>>
    \/ RunFixCommandReturn /\ UNCHANGED <<valVars, detVars, restVars>>

SpecGroups == InitGroups /\ [][NextGroups]_vars

----------------------------------------------------------------------------
(* Observations on Run and Fix with several hook groups *)

(* Run or Fix has resolved its hooks *)
HooksResolved ==
    \/ op = "Run" /\ pc \in {"hooks", "running"}
    \/ op = "Run" /\ pc = "done" /\ ToolsEnsured
    \/ op = "Fix" /\ pc \in {"fix", "rfc", "fixing", "done"}

(* The groups of the configuration that have an entry for the hook type *)
GroupsWithType == {g \in DOMAIN cfg.Hooks : hookType \in DOMAIN cfg.Hooks[g]}

SameHook(h, configured) ==
    /\ h.Name = configured.Name
    /\ h.Command = configured.Command
    /\ h.FixCommand = configured.FixCommand
    /\ h.OutputRules.ShowOn = configured.OutputRules.ShowOn
    /\ h.OutputRules.OnFailureMessage = configured.OutputRules.OnFailureMessage

(* C25: the resolved list is made of one block per group that has the key   *)
(* hookType, the block of a group being its hooks under that key in their   *)
(* configured order; the blocks do not overlap and cover the list, so no    *)
(* hook is omitted, doubled or taken from another key; Run and Fix alike    *)
C25_ResolvedHooks ==
    HooksResolved =>
        \E start \in [GroupsWithType -> 0..Len(hooks)] :
            /\ \A g \in GroupsWithType :
                  LET configured == cfg.Hooks[g][hookType]
                  IN  /\ start[g] + Len(configured) <= Len(hooks)
                      /\ \A k \in 1..Len(configured) :
                            SameHook(hooks[start[g] + k], configured[k])
            /\ \A g1, g2 \in GroupsWithType :
                  g1 # g2 =>
                      \/ start[g1] + Len(cfg.Hooks[g1][hookType]) <= start[g2]
                      \/ start[g2] + Len(cfg.Hooks[g2][hookType]) <= start[g1]
            /\ \A k \in 1..Len(hooks) :
                  \E g \in GroupsWithType :
                      start[g] < k /\ k <= start[g] + Len(cfg.Hooks[g][hookType])

(* Fix has resolved the hooks of two groups, one of which also has hooks    *)
(* under another key                                                        *)
C25_Witness ==
    /\ op = "Fix"
    /\ pc = "done"
    /\ Cardinality(GroupsWithType) = 2
    /\ Len(hooks) = 3
    /\ \E g \in GroupsWithType : Cardinality(DOMAIN cfg.Hooks[g]) = 2

(* C26: for a fixed config and hook type every invocation of Run executes   *)
(* the hook commands in the same order, and returns the results and emits   *)
(* the output in that order, also with hooks from two or more groups        *)
C26_SameOrder ==
    (op = "Run" /\ pc = "done" /\ ToolsEnsured) =>
        \A n \in 1..Len(invocations) :
            invocations[n].ran =>
                /\ invocations[n].commands = Invocation.commands
                /\ invocations[n].results = Invocation.results
                /\ invocations[n].output = Invocation.output

FixableCommands == 
    LET fixable == SelectSeq(hooks, LAMBDA h : h.FixCommand # "")
    IN  [k \in 1..Len(fixable) |-> fixable[k].FixCommand]

(* C29: Fix runs nothing but the fix commands of the resolved hooks that    *)
(* have one, in order: no check, install or main command; hooks without a   *)
(* fix command are passed over; with no fixable hook it returns nil and    *)
(* has run nothing                                                          *)
C29_FixRunsFixCommandsOnly ==
    op = "Fix" =>
        LET run == [k \in 1..Len(calls) |-> calls[k].cmd]
        IN  /\ IsPrefix(run, FixableCommands)
            /\ \A k \in 1..Len(calls) :
                  /\ ~IsHookCommand(calls[k])
                  /\ ~IsCheckCommand(calls[k])
                  /\ ~IsInstallCommand(calls[k])
            /\ (pc = "done" /\ ret.err = NoErr) => run = FixableCommands
            /\ (pc = "done" /\ FixableCommands = <<>>) =>
                   ret.err = NoErr /\ calls = <<>>

(* Fix returned nil on a config with tools, having passed over a hook       *)
(* without a fix command and run the fix command of another                 *)
C29_Witness ==
    /\ op = "Fix"
    /\ pc = "done"
    /\ ret.err = NoErr
    /\ cfg.Tools # <<>>
    /\ Len(calls) = 1
    /\ Len(hooks) >= 2
    /\ hooks[1].FixCommand = ""

(* Fix returned nil on hooks none of which has a fix command *)
C29_WitnessNothingFixable ==
    /\ op = "Fix"
    /\ pc = "done"
    /\ hooks # <<>>
    /\ FixableCommands = <<>>

(* C30: Run with a hook type for which no group has an entry checks every   *)
(* tool, installing the missing ones, executes no hook command and, when    *)
(* no installation failed, returns an empty result list and no error        *)
C30_NoHooksForType ==
    (op = "Run" /\ pc = "done" /\ GroupsWithType = {}) =>
        /\ \A k \in 1..Len(calls) : ~IsHookCommand(calls[k])
        /\ ToolsEnsured =>
              /\ ret.results = <<>>
              /\ ret.err = NoErr
              /\ LET checks == SelectSeq(calls, IsCheckCommand)
                 IN  /\ Len(checks) = Len(cfg.Tools)
                     /\ \A k \in 1..Len(checks) :
                           checks[k].cmd = cfg.Tools[k].CheckCommand
              /\ \A k \in 1..Len(calls) :
                    (IsCheckCommand(calls[k]) /\ calls[k].state = "failed") =>
                        /\ k < Len(calls)
                        /\ IsInstallCommand(calls[k + 1])
                        /\ calls[k + 1].state = "ok"
        /\ ~ToolsEnsured => ret.err # NoErr

(* Run returned for a hook type no group has, on a config with hooks under  *)
(* other keys, after installing a tool                                      *)
C30_Witness ==
    /\ op = "Run"
    /\ pc = "done"
    /\ GroupsWithType = {}
    /\ cfg.Hooks # <<>>
    /\ \E g \in DOMAIN cfg.Hooks : DOMAIN cfg.Hooks[g] # {}
    /\ ToolsEnsured
    /\ \E k \in 1..Len(calls) : IsInstallCommand(calls[k])

====
